---------------------------- MODULE Spec2Model ----------------------------
(***************************************************************************)
(* go-csql: the statement segmenter (pkg/db splitSQLStatements), the       *)
(* per-instance executor (RunSQLOnInstanceWithVerbosity) and the fan-out   *)
(* in cmd/csql main (goroutine per instance, WaitGroup, unbuffered         *)
(* results channel, or the sequential loop).                               *)
(*                                                                         *)
(* A text is a sequence of one-character strings.  The specifications     *)
(* share the variables and the actions: Spec runs main over a list of      *)
(* instances with a bounded number of database failures, SpecExec runs one *)
(* instance against a database that may fail every call, and SpecSplit     *)
(* runs the segmenter's scan loop over every bounded input.  SpecComments  *)
(* and SpecQuotes run the same loop on longer texts of comment characters  *)
(* and on texts of quote characters (with the loop's fairness), SpecCases  *)
(* on the named texts.  SpecMask, SpecFill and SpecLoad apply the helpers  *)
(* maskPasswordInDSN and FillDSN and the loading of main's input to every  *)
(* bounded argument.  SpecCommentQuotes runs the scan loop on texts of     *)
(* comment characters and apostrophes, SpecConserve on the runes of byte   *)
(* strings.  SpecDuplicates runs main on instance lists that name a DSN    *)
(* twice, SpecFair under fair scheduling of the goroutines, and SpecHang   *)
(* under fair scheduling with database calls that may never return.        *)
(***************************************************************************)
EXTENDS Integers, Sequences, FiniteSets, TLC

\* ------------------------------------------------------------- bounds

\* Longest raw SQL text scanned under SpecSplit.
MaxLen == 4

\* Number of entries of the instance list under Spec.
NumInstances == 3

\* ------------------------------------------------------------ texts

\* The backquote rune: TLA+ strings cannot hold it, so it has a name.
BackTick == "bt"

\* The characters the segmenter tells apart, an ordinary letter and the
\* letter of the vertical marker.
Alphabet == {"a", ";", "'", "\"", BackTick, "\\", "-", "/", "*", "\n", "G"}

\* unicode.IsSpace, restricted to the characters that occur in SQL text.
WhiteSpace == {" ", "\t", "\n", "\r"}

\* The marker \G that strings.HasSuffix looks for.
VerticalMarker == <<"\\", "G">>

BoundedTexts(chars, n) == UNION {[1..m -> chars] : m \in 0..n}

RECURSIVE TrimLeft(_)
TrimLeft(s) ==
    IF s # <<>> /\ Head(s) \in WhiteSpace THEN TrimLeft(Tail(s)) ELSE s

RECURSIVE TrimRight(_)
TrimRight(s) ==
    IF s # <<>> /\ s[Len(s)] \in WhiteSpace
    THEN TrimRight(SubSeq(s, 1, Len(s) - 1))
    ELSE s

TrimSpace(s) == TrimRight(TrimLeft(s))

HasSuffix(s, suffix) ==
    /\ Len(s) >= Len(suffix)
    /\ SubSeq(s, Len(s) - Len(suffix) + 1, Len(s)) = suffix

\* ------------------------------------------------- statement segmenter

\* Mutant: the unit is appended without the test of the text that is left
\* when the marker is gone.
AppendStatement_KeepEmpty(statements, buffer) ==
    LET stmt == TrimSpace(buffer)
        vertical == HasSuffix(stmt, VerticalMarker)
        text == IF vertical
                THEN TrimSpace(SubSeq(stmt, 1, Len(stmt) - 2))
                ELSE stmt
    IN  IF stmt # <<>>
        THEN Append(statements, [SQL |-> text, Vertical |-> vertical])
        ELSE statements

\* The tail of a statement: trim, detect and strip the marker, and append
\* the unit unless nothing is left.
AppendStatement(statements, buffer) ==
    LET stmt == TrimSpace(buffer)
        vertical == HasSuffix(stmt, VerticalMarker)
        text == IF vertical
                THEN TrimSpace(SubSeq(stmt, 1, Len(stmt) - 2))
                ELSE stmt
    IN  IF stmt # <<>> /\ text # <<>>
        THEN Append(statements, [SQL |-> text, Vertical |-> vertical])
        ELSE statements

\* The scanner's locals before the first rune.  i counts the runes consumed
\* (the code's index i); splitAt and quotedAt record, for the claims, the
\* positions of the terminating semicolons and the positions consumed in a
\* quote state, and buffers the content of currentStatement at each Reset.
ScanInit ==
    [i |-> 0,
     inSingleQuote |-> FALSE, inDoubleQuote |-> FALSE, inBacktick |-> FALSE,
     inLineComment |-> FALSE, inBlockComment |-> FALSE,
     currentStatement |-> <<>>,
     statements |-> <<>>,
     splitAt |-> {}, quotedAt |-> {}, buffers |-> <<>>]

InQuote(s) == s.inSingleQuote \/ s.inDoubleQuote \/ s.inBacktick

\* Mutant: the backtick flag is forgotten in the semicolon test.
IsSeparator_NoBacktick(r, s) ==
    /\ r = ";"
    /\ ~s.inSingleQuote /\ ~s.inDoubleQuote
    /\ ~s.inLineComment /\ ~s.inBlockComment

\* Mutant: the double quote flag is forgotten in the semicolon test.
IsSeparator_NoDoubleQuote(r, s) ==
    /\ r = ";"
    /\ ~s.inSingleQuote /\ ~s.inBacktick
    /\ ~s.inLineComment /\ ~s.inBlockComment

\* Mutant: the line comment flag is forgotten in the semicolon test.
IsSeparator_NoLineComment(r, s) ==
    /\ r = ";"
    /\ ~s.inSingleQuote /\ ~s.inDoubleQuote /\ ~s.inBacktick
    /\ ~s.inBlockComment

\* Mutant: the block comment flag is forgotten in the semicolon test.
IsSeparator_NoBlockComment(r, s) ==
    /\ r = ";"
    /\ ~s.inSingleQuote /\ ~s.inDoubleQuote /\ ~s.inBacktick
    /\ ~s.inLineComment

\* The semicolon test at the end of the loop body, on the flags as the
\* body has updated them.
IsSeparator(r, s) ==
    /\ r = ";"
    /\ ~s.inSingleQuote /\ ~s.inDoubleQuote /\ ~s.inBacktick
    /\ ~s.inLineComment /\ ~s.inBlockComment

\* Mutant: the quote switch runs inside comments too.
ToggleQuotes_InComments(r, s) ==
    IF r = "'" /\ ~s.inDoubleQuote /\ ~s.inBacktick
    THEN [s EXCEPT !.inSingleQuote = ~s.inSingleQuote]
    ELSE IF r = "\"" /\ ~s.inSingleQuote /\ ~s.inBacktick
         THEN [s EXCEPT !.inDoubleQuote = ~s.inDoubleQuote]
    ELSE IF r = BackTick /\ ~s.inSingleQuote /\ ~s.inDoubleQuote
         THEN [s EXCEPT !.inBacktick = ~s.inBacktick]
    ELSE s

\* Mutant: a quote character toggles its own flag whatever else is open.
ToggleQuotes_Nested(r, s) ==
    IF r = "'" THEN [s EXCEPT !.inSingleQuote = ~s.inSingleQuote]
    ELSE IF r = "\"" THEN [s EXCEPT !.inDoubleQuote = ~s.inDoubleQuote]
    ELSE IF r = BackTick THEN [s EXCEPT !.inBacktick = ~s.inBacktick]
    ELSE s

\* The quote switch: a quote character toggles its own flag when the scan
\* is in no comment and no other quote is open.
ToggleQuotes(r, s) ==
    IF s.inLineComment \/ s.inBlockComment THEN s
    ELSE IF r = "'" /\ ~s.inDoubleQuote /\ ~s.inBacktick
         THEN [s EXCEPT !.inSingleQuote = ~s.inSingleQuote]
    ELSE IF r = "\"" /\ ~s.inSingleQuote /\ ~s.inBacktick
         THEN [s EXCEPT !.inDoubleQuote = ~s.inDoubleQuote]
    ELSE IF r = BackTick /\ ~s.inSingleQuote /\ ~s.inDoubleQuote
         THEN [s EXCEPT !.inBacktick = ~s.inBacktick]
    ELSE s

\* Mutant: a backslash is an ordinary character in every state.
IsEscape_Never(r, hasNext, s) == FALSE

\* Mutant: the escape test does not look whether a rune follows.
IsEscape_NoBoundCheck(r, hasNext, s) == InQuote(s) /\ r = "\\"

\* The escape test at the head of the loop body: a backslash in a quote
\* state that is not the last rune.
IsEscape(r, hasNext, s) == InQuote(s) /\ r = "\\" /\ hasNext

\* Mutant: the dash that opens a line comment is not written to the buffer.
StartLineComment_NotWritten(r, s) == [s EXCEPT !.inLineComment = TRUE]

\* Start of a line comment: the flag is set and the dash is written.
StartLineComment(r, s) ==
    [s EXCEPT !.inLineComment = TRUE,
              !.currentStatement = Append(s.currentStatement, r)]

\* Mutant: only a carriage return ends a line comment.
EndLineComment_ReturnOnly(r, s) ==
    IF s.inLineComment /\ r = "\r"
    THEN [s EXCEPT !.inLineComment = FALSE]
    ELSE s

\* A newline or carriage return ends the line comment.
EndLineComment(r, s) ==
    IF s.inLineComment /\ r \in {"\n", "\r"}
    THEN [s EXCEPT !.inLineComment = FALSE]
    ELSE s

\* One iteration of the for loop over the runes of text, from the locals s.
ScanStep(text, s) ==
    LET p == s.i + 1
        r == text[p]
        hasNext == p + 1 <= Len(text)
        next == IF hasNext THEN text[p + 1] ELSE ""
    IN  IF IsEscape(r, hasNext, s)
        THEN \* escape: the backslash and the rune after it are copied
             [s EXCEPT !.currentStatement = s.currentStatement \o <<r, next>>,
                       !.quotedAt = s.quotedAt \cup {p, p + 1},
                       !.i = p + 1]
        ELSE IF ~InQuote(s) /\ r = "-" /\ hasNext /\ next = "-"
        THEN [StartLineComment(r, s) EXCEPT !.i = p]
        ELSE IF ~InQuote(s) /\ r = "/" /\ hasNext /\ next = "*"
        THEN [s EXCEPT !.inBlockComment = TRUE,
                       !.currentStatement = Append(s.currentStatement, r),
                       !.i = p]
        ELSE IF ~InQuote(s) /\ s.inBlockComment /\ r = "*" /\ hasNext /\ next = "/"
        THEN [s EXCEPT !.inBlockComment = FALSE,
                       !.currentStatement = s.currentStatement \o <<r, next>>,
                       !.i = p + 1]
        ELSE LET a == EndLineComment(r, s)
                 b == ToggleQuotes(r, a)
                 c == [b EXCEPT !.quotedAt =
                            IF InQuote(b) THEN b.quotedAt \cup {p} ELSE b.quotedAt]
             IN  IF IsSeparator(r, c)
                 THEN [c EXCEPT !.statements = AppendStatement(c.statements, c.currentStatement),
                                !.currentStatement = <<>>,
                                !.splitAt = c.splitAt \cup {p},
                                !.buffers = Append(c.buffers, c.currentStatement),
                                !.i = p]
                 ELSE [c EXCEPT !.currentStatement = Append(c.currentStatement, r),
                                !.i = p]

\* Mutant: the last statement is appended as it is, the marker not looked
\* for.
ScanFinish_NoMarker(s) ==
    IF TrimSpace(s.currentStatement) # <<>>
    THEN [s EXCEPT !.statements =
              Append(s.statements,
                     [SQL |-> TrimSpace(s.currentStatement), Vertical |-> FALSE])]
    ELSE s

\* After the loop: the buffered text, if any, is the last statement.
ScanFinish(s) ==
    IF Len(s.currentStatement) > 0
    THEN [s EXCEPT !.statements = AppendStatement(s.statements, s.currentStatement)]
    ELSE s

RECURSIVE ScanFrom(_, _)
ScanFrom(text, s) ==
    IF s.i < Len(text) THEN ScanFrom(text, ScanStep(text, s)) ELSE s

splitSQLStatements(text) == ScanFinish(ScanFrom(text, ScanInit)).statements

\* ------------------------------------------------------------ state

VARIABLES
    concurrent,     \* the --concurrent flag
    sqls,           \* the raw SQL text handed to every executor
    instanceList,   \* the instance list, in input order
    faults,         \* how many more database calls the environment may fail
    maxRows,        \* the most rows a result set of this run holds
    mpc,            \* where main is
    mi,             \* main's loop index into instanceList
    res,            \* the result main received from resultsChan
    emitted,        \* the results handed to PrintResult, in print order
    wg,             \* the WaitGroup counter
    closer,         \* where the goroutine that closes the channel is
    chClosed,       \* whether resultsChan is closed
    xpc,            \* per instance: where its goroutine or call is
    xk,             \* per instance: the index of the statement at hand
    results,        \* per instance: the executor's results slice
    conn,           \* per instance: the state of its *sql.DB handle
    sent,           \* per instance: how many of its results were handed on
    queried,        \* per instance: how many db.Query calls were made
    dblog,          \* per instance: what each db.Query call sent and got back
    link,           \* per instance: how connecting went
    panicked,       \* the instance whose executor panicked, or 0
    input,          \* the text the segmenter scans
    sc,             \* the segmenter's locals
    spc,            \* where the segmenter is
    fpc,            \* which helper function is being applied, if any
    arg,            \* the helper's arguments
    ret             \* what the helper returned

runVars == <<concurrent, sqls, instanceList, faults, maxRows, mpc, mi, res,
             emitted, wg, closer, chClosed, xpc, xk, results, conn, sent, queried, dblog,
             link, panicked>>

scanVars == <<input, sc, spc>>

callVars == <<fpc, arg, ret>>

vars == <<runVars, scanVars, callVars>>

\* --------------------------------------------------- instance executor

Instances == 1..Len(instanceList)

\* SQL texts of the runs under Spec: two statements, the second vertical;
\* one statement; nothing but a separator.
RunTexts ==
    { <<"a", ";", "b", "\\", "G">>, <<"a">>, <<";">> }

\* SQL texts of the runs under SpecExec: RunTexts and three statements.
ExecTexts == RunTexts \cup { <<"a", ";", "b", ";", "a", "\\", "G", ";">> }

\* splitSQLStatements of every text a run is started with, computed once.
StatementLists == [text \in ExecTexts |-> splitSQLStatements(text)]

\* statementList, as every executor computes it from the shared text.
StatementList ==
    IF sqls \in DOMAIN StatementLists THEN StatementLists[sqls]
    ELSE splitSQLStatements(sqls)

\* The text reported for a statement: the marker is put back for display.
OriginalStmt(info) ==
    IF info.Vertical THEN info.SQL \o VerticalMarker ELSE info.SQL

\* Mutant: the marker is put back on the text sent to the database too.
StmtToExecute_WithMarker(info) ==
    IF info.Vertical THEN info.SQL \o VerticalMarker ELSE info.SQL

\* stmtToExecute: the text handed to db.Query.
StmtToExecute(info) == info.SQL

\* One call to the database as the driver saw it: which call ("open", "ping"
\* or "query"), for a query the loop index of the statement and the text
\* sent, whether the call failed and, once the rows were processed, what
\* Columns, the fetched rows and rows.Err did; cursor tells whether the
\* call's *sql.Rows is open.  When Columns failed no row
\* is fetched and rows.Err cannot change the error, so neither is logged.
DriverCall(call, unit, text, failed) ==
    [call |-> call, unit |-> unit, text |-> text, failed |-> failed,
     cursor |-> call = "query" /\ ~failed,
     colErr |-> FALSE, events |-> <<>>, iterErr |-> FALSE]

\* Mutant: rows.Close is skipped when rows.Columns failed.
RowsClosed_NotOnColumnError(colErr) == ~colErr

\* rows.Close() stands after the append, on the one path through the loop
\* body that a successful db.Query takes: it is reached whatever Columns did.
RowsClosed(colErr) == TRUE

\* QueryResult{Instance: dsn, Err: err}: the single result of an instance
\* that could not be opened or pinged.  Duration is not modelled.
ConnectionResult(dsn, err) ==
    [Instance |-> dsn, Statement |-> <<>>, Rows |-> <<>>, Columns |-> <<>>,
     Err |-> err, VerticalFormat |-> FALSE, RowCount |-> 0]

\* The result appended when db.Query fails.
QueryErrorResult(dsn, info) ==
    [Instance |-> dsn, Statement |-> OriginalStmt(info), Rows |-> <<>>,
     Columns |-> <<>>, Err |-> "query", VerticalFormat |-> info.Vertical,
     RowCount |-> 0]

\* What the driver can do with one result set: Columns() fails or not, each
\* fetched row scans ("row") or fails to scan ("bad"), and the iteration may
\* end with an error.
RowEvents(n) == BoundedTexts({"row", "bad"}, n)

FirstBad(events) ==
    \E p \in 1..Len(events) : events[p] = "bad"

\* The fetch position of the first row that failed to scan.
FirstBadAt(events) ==
    CHOOSE p \in 1..Len(events) :
        events[p] = "bad" /\ \A q \in 1..(p - 1) : events[q] # "bad"

\* The fetch position of the last row that failed to scan.
LastBadAt(events) ==
    CHOOSE p \in 1..Len(events) :
        events[p] = "bad" /\ \A q \in (p + 1)..Len(events) : events[q] # "bad"

\* fmt.Errorf("row scan error: %w", scanErr): the error wraps the scan error
\* of one row, named here by the row's fetch position.
ScanError(p) == "scan" \o ToString(p)

\* The rows kept: the fetch positions of the rows that scanned.
RECURSIVE ScannedRows(_, _)
ScannedRows(events, p) ==
    IF p > Len(events) THEN <<>>
    ELSE IF events[p] = "row" THEN <<p>> \o ScannedRows(events, p + 1)
    ELSE ScannedRows(events, p + 1)

\* Mutant: the rows are fetched although rows.Columns failed.
RowsResult_RowsDespiteColumns(dsn, info, colErr, events, iterErr) ==
    LET allRows == ScannedRows(events, 1)
        err == IF colErr THEN "columns"
               ELSE IF FirstBad(events) THEN ScanError(FirstBadAt(events))
               ELSE IF iterErr THEN "iteration"
               ELSE "nil"
    IN  [Instance |-> dsn, Statement |-> OriginalStmt(info), Rows |-> allRows,
         Columns |-> IF colErr THEN <<>> ELSE <<"c">>, Err |-> err,
         VerticalFormat |-> info.Vertical, RowCount |-> Len(allRows)]

\* Mutant: the tests "if err == nil" are missing, so the last error met wins.
RowsResult_LastErrorWins(dsn, info, colErr, events, iterErr) ==
    LET allRows == IF colErr THEN <<>> ELSE ScannedRows(events, 1)
        err == IF iterErr THEN "iteration"
               ELSE IF colErr THEN "columns"
               ELSE IF FirstBad(events) THEN ScanError(LastBadAt(events))
               ELSE "nil"
    IN  [Instance |-> dsn, Statement |-> OriginalStmt(info), Rows |-> allRows,
         Columns |-> IF colErr THEN <<>> ELSE <<"c">>, Err |-> err,
         VerticalFormat |-> info.Vertical, RowCount |-> Len(allRows)]

\* Mutant: a row that fails to scan ends the rows.Next loop.
RowsResult_BadRowAborts(dsn, info, colErr, events, iterErr) ==
    LET upTo == IF FirstBad(events) THEN SubSeq(events, 1, FirstBadAt(events))
                ELSE events
        allRows == IF colErr THEN <<>> ELSE ScannedRows(upTo, 1)
        err == IF colErr THEN "columns"
               ELSE IF FirstBad(events) THEN ScanError(FirstBadAt(events))
               ELSE IF iterErr THEN "iteration"
               ELSE "nil"
    IN  [Instance |-> dsn, Statement |-> OriginalStmt(info), Rows |-> allRows,
         Columns |-> IF colErr THEN <<>> ELSE <<"c">>, Err |-> err,
         VerticalFormat |-> info.Vertical, RowCount |-> Len(allRows)]

\* The result appended after rows were processed: the first error met wins.
RowsResult(dsn, info, colErr, events, iterErr) ==
    LET allRows == IF colErr THEN <<>> ELSE ScannedRows(events, 1)
        err == IF colErr THEN "columns"
               ELSE IF FirstBad(events) THEN ScanError(FirstBadAt(events))
               ELSE IF iterErr THEN "iteration"
               ELSE "nil"
    IN  [Instance |-> dsn, Statement |-> OriginalStmt(info), Rows |-> allRows,
         Columns |-> IF colErr THEN <<>> ELSE <<"c">>, Err |-> err,
         VerticalFormat |-> info.Vertical, RowCount |-> Len(allRows)]

Running(i) == xpc[i] \in {"open", "ping", "query", "rows"}

\* Mutant: a failed sql.Open is fatal and ends the run, as log.Fatal would.
OpenFailed_Fatal(i) ==
    /\ results' = [results EXCEPT ![i] = <<ConnectionResult(instanceList[i], "open")>>]
    /\ link' = [link EXCEPT ![i] = "openfailed"]
    /\ xpc' = [xpc EXCEPT ![i] = "returned"]
    /\ mpc' = "complete"
    /\ UNCHANGED conn

\* sql.Open failed: the single error result is returned at once.
OpenFailed(i) ==
    /\ results' = [results EXCEPT ![i] = <<ConnectionResult(instanceList[i], "open")>>]
    /\ link' = [link EXCEPT ![i] = "openfailed"]
    /\ xpc' = [xpc EXCEPT ![i] = "returned"]
    /\ UNCHANGED <<conn, mpc>>

\* splitSQLStatements, then sql.Open with the deferred db.Close.
Open(i) ==
    /\ xpc[i] = "open"
    /\ \/ /\ conn' = [conn EXCEPT ![i] = "open"]
          /\ xpc' = [xpc EXCEPT ![i] = "ping"]
          /\ dblog' = [dblog EXCEPT ![i] =
                 Append(@, DriverCall("open", 0, <<>>, FALSE))]
          /\ UNCHANGED <<results, faults, link, mpc>>
       \/ /\ faults > 0
          /\ faults' = faults - 1
          /\ dblog' = [dblog EXCEPT ![i] =
                 Append(@, DriverCall("open", 0, <<>>, TRUE))]
          /\ OpenFailed(i)
    /\ UNCHANGED <<concurrent, sqls, instanceList, maxRows, mi, res, emitted,
                   wg, closer, chClosed, xk, sent, queried, panicked, scanVars, callVars>>

\* Mutant: the return after the failed ping is missing, so the statement
\* loop runs on the dead connection.
PingFailed_NoReturn(i) ==
    /\ results' = [results EXCEPT ![i] = <<ConnectionResult(instanceList[i], "ping")>>]
    /\ link' = [link EXCEPT ![i] = "pingfailed"]
    /\ xpc' = [xpc EXCEPT ![i] = "query"]
    /\ xk' = [xk EXCEPT ![i] = 1]
    /\ UNCHANGED conn

\* Mutant: the return after the failed ping leaves the handle open.
PingFailed_NoClose(i) ==
    /\ results' = [results EXCEPT ![i] = <<ConnectionResult(instanceList[i], "ping")>>]
    /\ link' = [link EXCEPT ![i] = "pingfailed"]
    /\ xpc' = [xpc EXCEPT ![i] = "returned"]
    /\ UNCHANGED <<conn, xk>>

\* db.Ping failed: the single error result is returned and the deferred
\* db.Close releases the handle.
PingFailed(i) ==
    /\ results' = [results EXCEPT ![i] = <<ConnectionResult(instanceList[i], "ping")>>]
    /\ link' = [link EXCEPT ![i] = "pingfailed"]
    /\ conn' = [conn EXCEPT ![i] = "closed"]
    /\ xpc' = [xpc EXCEPT ![i] = "returned"]
    /\ UNCHANGED xk

\* db.Ping, to verify the connection early.
Ping(i) ==
    /\ xpc[i] = "ping"
    /\ \/ /\ xpc' = [xpc EXCEPT ![i] = "query"]
          /\ link' = [link EXCEPT ![i] = "ready"]
          /\ xk' = [xk EXCEPT ![i] = 1]
          /\ dblog' = [dblog EXCEPT ![i] =
                 Append(@, DriverCall("ping", 0, <<>>, FALSE))]
          /\ UNCHANGED <<results, conn, faults>>
       \/ /\ faults > 0
          /\ faults' = faults - 1
          /\ dblog' = [dblog EXCEPT ![i] =
                 Append(@, DriverCall("ping", 0, <<>>, TRUE))]
          /\ PingFailed(i)
    /\ UNCHANGED <<concurrent, sqls, instanceList, maxRows, mpc, mi, res, emitted,
                   wg, closer, chClosed, sent, queried, panicked, scanVars, callVars>>

\* Mutant: break instead of continue, so the first failing statement ends
\* the loop.
QueryFailed_Break(i) ==
    /\ results' = [results EXCEPT ![i] =
           Append(@, QueryErrorResult(instanceList[i], StatementList[xk[i]]))]
    /\ xk' = [xk EXCEPT ![i] = Len(StatementList) + 1]
    /\ UNCHANGED <<xpc, conn>>

\* Mutant: a failed db.Query is tried again instead of being reported.
QueryFailed_Retry(i) ==
    UNCHANGED <<results, xk, xpc, conn>>

\* db.Query failed: the error result is appended and the loop continues
\* with the next statement.
QueryFailed(i) ==
    /\ results' = [results EXCEPT ![i] =
           Append(@, QueryErrorResult(instanceList[i], StatementList[xk[i]]))]
    /\ xk' = [xk EXCEPT ![i] = @ + 1]
    /\ UNCHANGED <<xpc, conn>>

\* db.Query on the statement at hand.
Query(i) ==
    /\ xpc[i] = "query"
    /\ xk[i] <= Len(StatementList)
    /\ queried' = [queried EXCEPT ![i] = @ + 1]
    /\ \/ /\ xpc' = [xpc EXCEPT ![i] = "rows"]
          /\ dblog' = [dblog EXCEPT ![i] =
                 Append(@, DriverCall("query", xk[i],
                                      StmtToExecute(StatementList[xk[i]]), FALSE))]
          /\ UNCHANGED <<results, xk, faults, conn>>
       \/ /\ faults > 0
          /\ faults' = faults - 1
          /\ dblog' = [dblog EXCEPT ![i] =
                 Append(@, DriverCall("query", xk[i],
                                      StmtToExecute(StatementList[xk[i]]), TRUE))]
          /\ QueryFailed(i)
    /\ UNCHANGED <<concurrent, sqls, instanceList, maxRows, mpc, mi, res, emitted,
                   wg, closer, chClosed, sent, link, panicked, scanVars, callVars>>

\* rows.Columns, the rows.Next loop, rows.Err, the append and rows.Close.
Rows(i) ==
    /\ xpc[i] = "rows"
    /\ \E colErr \in BOOLEAN, events \in RowEvents(maxRows), iterErr \in BOOLEAN :
          LET cost == IF colErr \/ FirstBad(events) \/ iterErr THEN 1 ELSE 0
          IN  /\ cost <= faults
              /\ faults' = faults - cost
              /\ results' = [results EXCEPT ![i] =
                     Append(@, RowsResult(instanceList[i], StatementList[xk[i]],
                                          colErr, events, iterErr))]
              /\ dblog' = [dblog EXCEPT ![i] = [@ EXCEPT ![Len(dblog[i])] =
                     [@ EXCEPT !.cursor = ~RowsClosed(colErr),
                               !.colErr = colErr,
                               !.events = IF colErr THEN <<>> ELSE events,
                               !.iterErr = ~colErr /\ iterErr]]]
    /\ xk' = [xk EXCEPT ![i] = @ + 1]
    /\ xpc' = [xpc EXCEPT ![i] = "query"]
    /\ UNCHANGED <<concurrent, sqls, instanceList, maxRows, mpc, mi, res, emitted,
                   wg, closer, chClosed, conn, sent, queried, link, panicked,
                   scanVars, callVars>>

\* Mutant: the deferred db.Close is missing, so the handle stays open.
Return_NoClose(i) ==
    /\ xpc[i] = "query"
    /\ xk[i] > Len(StatementList)
    /\ xpc' = [xpc EXCEPT ![i] = "returned"]
    /\ UNCHANGED <<concurrent, sqls, instanceList, faults, maxRows, mpc, mi, res,
                   emitted, wg, closer, chClosed, xk, results, conn, sent, queried, dblog, link, panicked, scanVars, callVars>>

\* The loop is over: return results, and the deferred db.Close runs.
Return(i) ==
    /\ xpc[i] = "query"
    /\ xk[i] > Len(StatementList)
    /\ conn' = [conn EXCEPT ![i] = "closed"]
    /\ xpc' = [xpc EXCEPT ![i] = "returned"]
    /\ UNCHANGED <<concurrent, sqls, instanceList, faults, maxRows, mpc, mi, res,
                   emitted, wg, closer, chClosed, xk, results, sent, queried, dblog, link, panicked, scanVars, callVars>>


\* A database call of executor i panics.  Nothing on the call path (the
\* executor, the goroutine body, main) recovers, so the Go runtime ends the
\* process: every goroutine is gone and only what was printed remains.
Panic(i) ==
    /\ Running(i)
    /\ faults > 0
    /\ faults' = faults - 1
    /\ panicked' = i
    /\ mpc' = "crashed"
    /\ closer' = "dead"
    /\ xpc' = [j \in Instances |-> "dead"]
    /\ results' = [j \in Instances |-> <<>>]
    /\ xk' = [j \in Instances |-> 0]
    /\ sent' = [j \in Instances |-> 0]
    /\ queried' = [j \in Instances |-> 0]
    /\ dblog' = [j \in Instances |-> <<>>]
    /\ conn' = [j \in Instances |-> "none"]
    /\ link' = [j \in Instances |-> "untried"]
    /\ mi' = 0
    /\ wg' = 0
    /\ res' = <<>>
    /\ UNCHANGED <<concurrent, sqls, instanceList, maxRows, emitted, chClosed, scanVars, callVars>>

\* ------------------------------------------------ main, concurrent mode

\* Mutant: the flag is ignored and every run takes the concurrent branch.
ModeSwitch_AlwaysConcurrent == "spawn"

\* if *concurrent { ... } else { ... }: the branch main takes.
ModeSwitch == IF concurrent THEN "spawn" ELSE "seq"

\* main is in the concurrent branch, so executors run in goroutines.
InGoroutines == mpc \in {"spawn", "range", "print"}

\* Mutant: an entry whose DSN stands earlier in the list gets no goroutine.
Spawn_SkipDuplicate ==
    /\ mpc = "spawn"
    /\ mi <= Len(instanceList)
    /\ LET dup == \E j \in 1..(mi - 1) : instanceList[j] = instanceList[mi]
       IN  /\ wg' = IF dup THEN wg ELSE wg + 1
           /\ xpc' = IF dup THEN xpc ELSE [xpc EXCEPT ![mi] = "open"]
    /\ mi' = mi + 1
    /\ UNCHANGED <<concurrent, sqls, instanceList, faults, maxRows, mpc, res, emitted,
                   closer, chClosed, xk, results, conn, sent, queried, dblog, link, panicked,
                   scanVars, callVars>>

\* One iteration of the launch loop: wg.Add(1) and the go statement.
Spawn ==
    /\ mpc = "spawn"
    /\ mi <= Len(instanceList)
    /\ wg' = wg + 1
    /\ xpc' = [xpc EXCEPT ![mi] = "open"]
    /\ mi' = mi + 1
    /\ UNCHANGED <<concurrent, sqls, instanceList, faults, maxRows, mpc, res, emitted,
                   closer, chClosed, xk, results, conn, sent, queried, dblog, link, panicked,
                   scanVars, callVars>>

\* After the loop main starts the closing goroutine and enters the range
\* loop over resultsChan.
SpawnCloser ==
    /\ mpc = "spawn"
    /\ mi > Len(instanceList)
    /\ closer' = "wait"
    /\ mpc' = "range"
    /\ UNCHANGED <<concurrent, sqls, instanceList, faults, maxRows, mi, res, emitted,
                   wg, chClosed, xpc, xk, results, conn, sent, queried, dblog, link, panicked,
                   scanVars, callVars>>

\* Mutant: results are sent from inside the statement loop, as they are made.
MaySend_Streaming(i) == xpc[i] \in {"query", "rows", "returned"}

\* instanceResults is complete before the goroutine sends anything: the
\* send loop follows the return of RunSQLOnInstance.
MaySend(i) == xpc[i] = "returned"

\* Mutant: the results are handed on back to front.
NextToSend_Reverse(i) == Len(results[i]) - sent[i]

\* The range over instanceResults hands the results on front to back.
NextToSend(i) == sent[i] + 1

\* resultsChan <- res.  The channel has no buffer: the send completes only
\* with main waiting in the range loop, and main then holds the value.  A
\* send on a closed channel panics.
Send(i) ==
    /\ InGoroutines
    /\ MaySend(i)
    /\ sent[i] < Len(results[i])
    /\ IF chClosed
       THEN /\ panicked' = i
            /\ mpc' = "crashed"
            /\ UNCHANGED <<res, sent>>
       ELSE /\ mpc = "range"
            /\ res' = results[i][NextToSend(i)]
            /\ sent' = [sent EXCEPT ![i] = @ + 1]
            /\ mpc' = "print"
            /\ UNCHANGED panicked
    /\ UNCHANGED <<concurrent, sqls, instanceList, faults, maxRows, mi, emitted, wg,
                   closer, chClosed, xpc, xk, results, conn, queried, dblog, link, scanVars, callVars>>

\* Mutant: wg.Done is not deferred to the end of the goroutine body but
\* called on return of the executor, before the results are sent.
WorkerDone_BeforeSend(i) ==
    /\ InGoroutines
    /\ xpc[i] = "returned"
    /\ wg' = wg - 1
    /\ xpc' = [xpc EXCEPT ![i] = "exited"]
    /\ UNCHANGED <<concurrent, sqls, instanceList, faults, maxRows, mpc, mi, res,
                   emitted, closer, chClosed, xk, results, conn, sent, queried, dblog,
                   link, panicked, scanVars, callVars>>

\* The goroutine body ends: the deferred wg.Done.
WorkerDone(i) ==
    /\ InGoroutines
    /\ xpc[i] = "returned"
    /\ sent[i] = Len(results[i])
    /\ wg' = wg - 1
    /\ xpc' = [xpc EXCEPT ![i] = "exited"]
    /\ UNCHANGED <<concurrent, sqls, instanceList, faults, maxRows, mpc, mi, res,
                   emitted, closer, chClosed, xk, results, conn, sent, queried, dblog,
                   link, panicked, scanVars, callVars>>

\* Mutant: the closing goroutine does not wait for the workers.
WaitReturns_Immediately == TRUE

\* Mutant: wg.Wait gives up on the workers whose database call hangs.
WaitReturns_Timeout == wg = Cardinality({i \in Instances : xpc[i] = "hung"})

\* When wg.Wait may return.
WaitReturns == wg = 0

\* wg.Wait() in the closing goroutine.
CloserWait ==
    /\ closer = "wait"
    /\ WaitReturns
    /\ closer' = "close"
    /\ UNCHANGED <<concurrent, sqls, instanceList, faults, maxRows, mpc, mi, res,
                   emitted, wg, chClosed, xpc, xk, results, conn, sent, queried, dblog,
                   link, panicked, scanVars, callVars>>

\* Mutant: the closing goroutine ends without closing the channel.
CloserClose_NoClose ==
    /\ closer = "close"
    /\ closer' = "done"
    /\ UNCHANGED <<concurrent, sqls, instanceList, faults, maxRows, mpc, mi, res,
                   emitted, wg, chClosed, xpc, xk, results, conn, sent, queried, dblog, link, panicked,
                   scanVars, callVars>>

\* close(resultsChan).
CloserClose ==
    /\ closer = "close"
    /\ chClosed' = TRUE
    /\ closer' = "done"
    /\ UNCHANGED <<concurrent, sqls, instanceList, faults, maxRows, mpc, mi, res,
                   emitted, wg, xpc, xk, results, conn, sent, queried, dblog, link, panicked,
                   scanVars, callVars>>

\* Mutant: a received result is printed twice.
PrintResult_Twice ==
    /\ mpc = "print"
    /\ emitted' = Append(Append(emitted, res), res)
    /\ mpc' = "range"
    /\ UNCHANGED <<concurrent, sqls, instanceList, faults, maxRows, mi, res, wg,
                   closer, chClosed, xpc, xk, results, conn, sent, queried, dblog, link, panicked,
                   scanVars, callVars>>

\* The body of the range loop: PrintResult(res, ...).
PrintResult ==
    /\ mpc = "print"
    /\ emitted' = Append(emitted, res)
    /\ mpc' = "range"
    /\ UNCHANGED <<concurrent, sqls, instanceList, faults, maxRows, mi, res, wg,
                   closer, chClosed, xpc, xk, results, conn, sent, queried, dblog, link, panicked,
                   scanVars, callVars>>

\* The range loop ends on the closed channel; "All executions complete."
RangeEnd ==
    /\ mpc = "range"
    /\ chClosed
    /\ mpc' = "complete"
    /\ UNCHANGED <<concurrent, sqls, instanceList, faults, maxRows, mi, res, emitted,
                   wg, closer, chClosed, xpc, xk, results, conn, sent, queried, dblog,
                   link, panicked, scanVars, callVars>>

\* ------------------------------------------------ main, sequential mode

\* Mutant: the loop visits the instances in no fixed order, as a range over
\* a map would.
SeqCall_AnyOrder ==
    /\ mpc = "seq"
    /\ \E j \in Instances :
          /\ xpc[j] = "idle"
          /\ xpc' = [xpc EXCEPT ![j] = "open"]
          /\ mi' = j
    /\ mpc' = "seqwait"
    /\ UNCHANGED <<concurrent, sqls, instanceList, faults, maxRows, res, emitted,
                   wg, closer, chClosed, xk, results, conn, sent, queried, dblog, link,
                   panicked, scanVars, callVars>>

\* One iteration of the sequential loop calls the executor.
SeqCall ==
    /\ mpc = "seq"
    /\ mi <= Len(instanceList)
    /\ xpc' = [xpc EXCEPT ![mi] = "open"]
    /\ mpc' = "seqwait"
    /\ UNCHANGED <<concurrent, sqls, instanceList, faults, maxRows, mi, res, emitted,
                   wg, closer, chClosed, xk, results, conn, sent, queried, dblog, link, panicked,
                   scanVars, callVars>>

\* Mutant: the sequential loop prints only the results without an error.
SeqPrint_SkipErrors ==
    /\ mpc = "seqwait"
    /\ xpc[mi] = "returned"
    /\ sent[mi] < Len(results[mi])
    /\ emitted' = IF results[mi][sent[mi] + 1].Err = "nil"
                  THEN Append(emitted, results[mi][sent[mi] + 1])
                  ELSE emitted
    /\ sent' = [sent EXCEPT ![mi] = @ + 1]
    /\ UNCHANGED <<concurrent, sqls, instanceList, faults, maxRows, mpc, mi, res, wg,
                   closer, chClosed, xpc, xk, results, conn, queried, dblog, link, panicked,
                   scanVars, callVars>>

\* The inner loop prints the returned results one by one.
SeqPrint ==
    /\ mpc = "seqwait"
    /\ xpc[mi] = "returned"
    /\ sent[mi] < Len(results[mi])
    /\ emitted' = Append(emitted, results[mi][sent[mi] + 1])
    /\ sent' = [sent EXCEPT ![mi] = @ + 1]
    /\ UNCHANGED <<concurrent, sqls, instanceList, faults, maxRows, mpc, mi, res, wg,
                   closer, chClosed, xpc, xk, results, conn, queried, dblog, link, panicked,
                   scanVars, callVars>>

\* The inner loop is over: on to the next instance.
SeqNext ==
    /\ mpc = "seqwait"
    /\ xpc[mi] = "returned"
    /\ sent[mi] = Len(results[mi])
    /\ xpc' = [xpc EXCEPT ![mi] = "exited"]
    /\ mi' = mi + 1
    /\ mpc' = "seq"
    /\ UNCHANGED <<concurrent, sqls, instanceList, faults, maxRows, res, emitted, wg,
                   closer, chClosed, xk, results, conn, sent, queried, dblog, link, panicked,
                   scanVars, callVars>>

\* The sequential loop ends; "All executions complete."
SeqEnd ==
    /\ mpc = "seq"
    /\ mi > Len(instanceList)
    /\ mpc' = "complete"
    /\ UNCHANGED <<concurrent, sqls, instanceList, faults, maxRows, mi, res, emitted,
                   wg, closer, chClosed, xpc, xk, results, conn, sent, queried, dblog,
                   link, panicked, scanVars, callVars>>


\* ------------------------------------------------- segmenter, stepwise

\* One iteration of the scan loop of splitSQLStatements(input).
Scan ==
    /\ spc = "scan"
    /\ sc.i < Len(input)
    /\ sc' = ScanStep(input, sc)
    /\ UNCHANGED <<input, spc, runVars, callVars>>

\* The loop is over: the last statement is handled and the list returned.
Finish ==
    /\ spc = "scan"
    /\ sc.i >= Len(input)
    /\ sc' = ScanFinish(sc)
    /\ spc' = "done"
    /\ UNCHANGED <<input, runVars, callVars>>

\* -------------------------------------------------------- specifications

\* The most database failures injected into one run.
MaxFaults == 1

\* The most rows of a result set.
MaxRows == 2

\* The most results of one run under Spec: instances times statements.
MaxOutcomes == 4

ScanIdle == input = <<>> /\ sc = ScanInit /\ spc = "idle"

CallIdle == fpc = "idle" /\ arg = <<>> /\ ret = <<>>

RunIdle ==
    /\ concurrent = FALSE /\ sqls = <<>> /\ instanceList = <<>>
    /\ faults = 0 /\ maxRows = 0
    /\ mpc = "idle" /\ mi = 0 /\ res = <<>> /\ emitted = <<>>
    /\ wg = 0 /\ closer = "none" /\ chClosed = FALSE
    /\ xpc = <<>> /\ xk = <<>> /\ results = <<>> /\ conn = <<>>
    /\ sent = <<>> /\ queried = <<>> /\ dblog = <<>> /\ link = <<>> /\ panicked = 0

\* main at the mode switch, after flag parsing and loading, with the
\* instance list, the SQL text, and what the environment may do.
RunInitOn(list, text, faultBudget, rowBudget) ==
    /\ concurrent \in BOOLEAN
    /\ sqls = text
    /\ instanceList = list
    /\ faults = faultBudget
    /\ maxRows = rowBudget
    /\ mpc = ModeSwitch
    /\ mi = 1
    /\ res = <<>>
    /\ emitted = <<>>
    /\ wg = 0
    /\ closer = "none"
    /\ chClosed = FALSE
    /\ xpc = [i \in 1..Len(list) |-> "idle"]
    /\ xk = [i \in 1..Len(list) |-> 0]
    /\ results = [i \in 1..Len(list) |-> <<>>]
    /\ conn = [i \in 1..Len(list) |-> "none"]
    /\ sent = [i \in 1..Len(list) |-> 0]
    /\ queried = [i \in 1..Len(list) |-> 0]
    /\ dblog = [i \in 1..Len(list) |-> <<>>]
    /\ link = [i \in 1..Len(list) |-> "untried"]
    /\ panicked = 0
    /\ ScanIdle
    /\ CallIdle

\* The same with n instances of distinct DSNs.
RunInit(n, text, faultBudget, rowBudget) ==
    RunInitOn([i \in 1..n |-> i], text, faultBudget, rowBudget)

Init ==
    \E n \in 1..NumInstances, text \in RunTexts :
        /\ n * Len(splitSQLStatements(text)) <= MaxOutcomes
        /\ RunInit(n, text, MaxFaults, 0)

Next ==
    \/ Spawn
    \/ SpawnCloser
    \/ CloserWait
    \/ CloserClose
    \/ PrintResult
    \/ RangeEnd
    \/ SeqCall
    \/ SeqPrint
    \/ SeqNext
    \/ SeqEnd
    \/ \E i \in Instances : Open(i)
    \/ \E i \in Instances : Ping(i)
    \/ \E i \in Instances : Query(i)
    \/ \E i \in Instances : Rows(i)
    \/ \E i \in Instances : Return(i)
    \/ \E i \in Instances : Panic(i)
    \/ \E i \in Instances : Send(i)
    \/ \E i \in Instances : WorkerDone(i)

Spec == Init /\ [][Next]_vars

\* The steps of the goroutine that runs the executor of entry i, in which
\* every database call returns.
Worker(i) ==
    /\ i \in Instances
    /\ Open(i) \/ Ping(i) \/ Query(i) \/ Rows(i) \/ Return(i) \/ Send(i) \/ WorkerDone(i)

\* The steps of main.
Coordinator ==
    \/ Spawn \/ SpawnCloser \/ PrintResult \/ RangeEnd
    \/ SeqCall \/ SeqPrint \/ SeqNext \/ SeqEnd

\* The steps of the closing goroutine.
Closer == CloserWait \/ CloserClose

\* The most instances of a run under fair scheduling.
MaxFairInstances == 2

\* Fair scheduling: a goroutine that can run is eventually run, and a
\* database call in progress eventually returns.
Fairness ==
    /\ WF_vars(Coordinator)
    /\ WF_vars(Closer)
    /\ \A i \in 1..MaxFairInstances : WF_vars(Worker(i))

InitFair ==
    \E n \in 1..MaxFairInstances, text \in RunTexts :
        /\ n * Len(splitSQLStatements(text)) <= MaxOutcomes
        /\ RunInit(n, text, MaxFaults, 0)

SpecFair == InitFair /\ [][Next]_vars /\ Fairness

\* The database call that executor i is making (sql.Open, db.Ping or
\* db.Query) never returns: no timeout or context is passed to the driver,
\* so the goroutine stays in the call.
Hang(i) ==
    /\ xpc[i] \in {"open", "ping", "query"}
    /\ xpc[i] = "query" => xk[i] <= Len(StatementList)
    /\ faults > 0
    /\ faults' = faults - 1
    /\ xpc' = [xpc EXCEPT ![i] = "hung"]
    /\ UNCHANGED <<concurrent, sqls, instanceList, maxRows, mpc, mi, res, emitted,
                   wg, closer, chClosed, xk, results, conn, sent, queried, dblog, link,
                   panicked, scanVars, callVars>>

NextHang == Next \/ \E i \in Instances : Hang(i)

\* Fair runs in which database calls may hang.
SpecHang == InitFair /\ [][NextHang]_vars /\ Fairness

\* One instance, and an environment that may fail every database call and
\* return up to MaxRows rows.
InitExec ==
    \E text \in ExecTexts :
        RunInit(1, text, 2 * (Len(splitSQLStatements(text)) + 1), MaxRows)

SpecExec == InitExec /\ [][Next]_vars

\* The instance list of n entries whose first two entries are the same DSN
\* and whose other entries are distinct.
DuplicateList(n) == [i \in 1..n |-> IF i = 1 THEN 1 ELSE i - 1]

\* Runs on an instance list that names a DSN twice.
InitDuplicates ==
    \E n \in 2..NumInstances, text \in RunTexts :
        /\ n * Len(splitSQLStatements(text)) <= MaxOutcomes
        /\ RunInitOn(DuplicateList(n), text, MaxFaults, 0)

SpecDuplicates == InitDuplicates /\ [][Next]_vars

\* The segmenter alone, on every text of at most MaxLen characters.
InitSplit ==
    /\ input \in BoundedTexts(Alphabet, MaxLen)
    /\ sc = ScanInit
    /\ spc = "scan"
    /\ RunIdle
    /\ CallIdle

NextSplit == Scan \/ Finish

SpecSplit == InitSplit /\ [][NextSplit]_vars


\* --------------------------------------------------------------- claims

\* The entries of the instance list are distinct in every run modelled, so
\* a result's Instance names its entry.
IndexOf(dsn) == CHOOSE i \in Instances : instanceList[i] = dsn

\* The printed results of instance i, in print order.
EmittedOf(i) == SelectSeq(emitted, LAMBDA r : r.Instance = instanceList[i])

Returned(i) == xpc[i] \in {"returned", "exited"}

ConnectFailed(i) == link[i] \in {"openfailed", "pingfailed"}

\* Results are printed in the order of the instance list.
InputOrder ==
    \A p, q \in 1..Len(emitted) :
        p < q => IndexOf(emitted[p].Instance) <= IndexOf(emitted[q].Instance)

\* The printed results of one instance are next to each other.
Contiguous ==
    \A p, q, r \in 1..Len(emitted) :
        (p < q /\ q < r /\ emitted[p].Instance = emitted[r].Instance)
            => emitted[q].Instance = emitted[p].Instance

C3_PanicBecomesOneResult ==
    (concurrent /\ panicked # 0) =>
        /\ mpc # "crashed"
        /\ Len(results[panicked]) = 1
        /\ results[panicked][1].Err # "nil"
        /\ results[panicked][1].Statement = <<>>

\* C4: when sql.Open or db.Ping fails, the executor returns exactly one
\* result, with an error and an empty statement text, and no statement is
\* run, however many there are.
C4_ConnectFailureOneResult ==
    \A i \in Instances :
        ConnectFailed(i) =>
            /\ Returned(i)
            /\ Len(results[i]) = 1
            /\ results[i][1].Err # "nil"
            /\ results[i][1].Statement = <<>>
            /\ results[i][1].Instance = instanceList[i]
            /\ queried[i] = 0

C4_Witness ==
    \E i \in Instances :
        /\ link[i] = "pingfailed"
        /\ Returned(i)
        /\ Len(StatementList) >= 2

\* C5: on a connected instance the executor returns exactly one result per
\* statement, result k for statement k, whichever statements fail; a failed
\* statement does not stop the ones after it.
C5_OneResultPerStatement ==
    \A i \in Instances :
        link[i] = "ready" =>
            /\ xpc[i] = "query" => Len(results[i]) = xk[i] - 1
            /\ xpc[i] = "rows" => Len(results[i]) = xk[i] - 1
            /\ Returned(i) =>
                  /\ Len(results[i]) = Len(StatementList)
                  /\ queried[i] = Len(StatementList)
            /\ Len(results[i]) <= Len(StatementList)
            /\ \A k \in 1..Len(results[i]) :
                  /\ results[i][k].Statement = OriginalStmt(StatementList[k])
                  /\ results[i][k].VerticalFormat = StatementList[k].Vertical
                  /\ results[i][k].Instance = instanceList[i]

C5_Witness ==
    \E i \in Instances :
        /\ link[i] = "ready"
        /\ Returned(i)
        /\ Len(results[i]) = 2
        /\ results[i][1].Err = "query"
        /\ results[i][2].Err = "nil"
        /\ results[i][2].RowCount = 1

\* C6: a connection failure on one instance leaves the others alone, in
\* both modes: at the end of the run the failed instance has exactly one
\* printed result, an error without statement text, and every connected
\* instance has one printed result per statement.
C6_ConnectFailureIsLocal ==
    mpc = "complete" =>
        \A i \in Instances :
            /\ ConnectFailed(i) =>
                  /\ Len(EmittedOf(i)) = 1
                  /\ EmittedOf(i)[1].Err # "nil"
                  /\ EmittedOf(i)[1].Statement = <<>>
            /\ link[i] = "ready" =>
                  /\ Len(EmittedOf(i)) = Len(StatementList)
                  /\ \A k \in 1..Len(StatementList) :
                        EmittedOf(i)[k].Statement # <<>>

C6_Witness ==
    /\ mpc = "complete"
    /\ concurrent
    /\ Len(instanceList) = 3
    /\ ConnectFailed(2)
    /\ link[1] = "ready" /\ link[3] = "ready"
    /\ Len(StatementList) >= 1
    /\ Len(emitted) = 3

\* C7: in both modes the results of one instance are printed in statement
\* order, under every interleaving of the workers.
C7_StatementOrder ==
    \A i \in Instances :
        link[i] = "ready" =>
            /\ Len(EmittedOf(i)) <= Len(StatementList)
            /\ \A k \in 1..Len(EmittedOf(i)) :
                  EmittedOf(i)[k].Statement = OriginalStmt(StatementList[k])

C7_Witness ==
    /\ concurrent
    /\ mpc = "complete"
    /\ Len(StatementList) = 2
    /\ Len(instanceList) = 2
    /\ \A i \in Instances : Len(EmittedOf(i)) = 2
    /\ emitted[1].Instance = instanceList[2]

C9_CompleteAfterWorkers ==
    mpc = "complete" =>
        /\ wg = 0
        /\ \A i \in Instances :
              /\ xpc[i] = "exited"
              /\ sent[i] = Len(results[i])
              /\ EmittedOf(i) = results[i]

C9_Witness ==
    /\ mpc = "complete"
    /\ concurrent
    /\ chClosed
    /\ Len(instanceList) = 3
    /\ \A i \in Instances : Len(results[i]) = 1

RECURSIVE CountChar(_, _)
CountChar(c, text) ==
    IF text = <<>> THEN 0
    ELSE (IF Head(text) = c THEN 1 ELSE 0) + CountChar(c, Tail(text))

RECURSIVE CountCharInUnits(_, _)
CountCharInUnits(c, units) ==
    IF units = <<>> THEN 0
    ELSE CountChar(c, Head(units).SQL) + CountCharInUnits(c, Tail(units))

\* C10: a semicolon consumed in a quote state (single, double, backtick)
\* ends no statement and stays in the text: no quoted position is a split
\* position, and every semicolon consumed that did not split is in a unit
\* or in the buffer.
C10_QuotedSemicolonKept ==
    /\ \A p \in sc.quotedAt : input[p] = ";" => p \notin sc.splitAt
    /\ spc \in {"scan", "done"} =>
          CountCharInUnits(";", sc.statements)
              + (IF spc = "scan" THEN CountChar(";", sc.currentStatement) ELSE 0)
          = Cardinality({p \in 1..sc.i : input[p] = ";"}) - Cardinality(sc.splitAt)

C10_Witness ==
    /\ spc = "done"
    /\ \E p \in sc.quotedAt, q \in sc.splitAt :
          /\ input[p] = ";"
          /\ p < q
          /\ Len(sc.statements) = 1
          /\ CountChar(";", sc.statements[1].SQL) = 1
          /\ sc.statements[1].SQL[1] = BackTick


\* ------------------------------------------------- segmenter, named texts

\* The scenario text: two plain statements, a quoted and a commented
\* semicolon, and a last statement ended by the vertical marker.
ScenarioText ==
    <<"S", "E", "L", "E", "C", "T", " ", "1", ";", " ", "S", "E", "L", "E",
      "C", "T", " ", "'", "a", ";", "b", "'", ";", " ", "-", "-", " ", "c",
      ";", "d", "\n", "S", "E", "L", "E", "C", "T", " ", "2", "\\", "G">>

\* A line comment holding a semicolon, ahead of a statement.
LineCommentText ==
    <<"S", "E", "L", "E", "C", "T", " ", "1", ";", " ", "-", "-", " ", "c",
      " ", ";", " ", "d", "\n", "S", "E", "L", "E", "C", "T", " ", "2", ";">>

\* A block comment holding a semicolon, ahead of a statement.
BlockCommentText ==
    <<"S", "E", "L", "E", "C", "T", " ", "1", ";", " ", "/", "*", " ", "c",
      " ", ";", " ", "d", " ", "*", "/", " ", "S", "E", "L", "E", "C", "T",
      " ", "2", ";">>

\* A block comment holding two dashes, closed on the line of the separator.
DashInBlockText ==
    <<"S", "E", "L", "E", "C", "T", " ", "1", " ", "/", "*", " ", "-", "-",
      " ", "*", "/", ";", " ", "S", "E", "L", "E", "C", "T", " ", "2", ";">>

CaseTexts ==
    {ScenarioText, LineCommentText, BlockCommentText, DashInBlockText}

\* The segmenter on the named texts.
InitCases ==
    /\ input \in CaseTexts
    /\ sc = ScanInit
    /\ spc = "scan"
    /\ RunIdle
    /\ CallIdle

SpecCases == InitCases /\ [][NextSplit]_vars

\* Longest text of comment characters scanned under SpecComments.
MaxCommentLen == 6

\* The characters that open and close comments, a separator and a newline.
CommentAlphabet == {"-", "/", "*", ";", "\n"}

\* The segmenter on every text of comment characters.
InitComments ==
    /\ input \in BoundedTexts(CommentAlphabet, MaxCommentLen)
    /\ sc = ScanInit
    /\ spc = "scan"
    /\ RunIdle
    /\ CallIdle

SpecComments == InitComments /\ [][NextSplit]_vars

\* ----------------------------------------------- segmenter claims, lexing

\* The lexical reading the claims speak of, kept apart from the scanner's
\* locals: at most one quote kind is open, and a line comment and a block
\* comment are each open or not.  Outside quoting two dashes open a line
\* comment, which lasts to the next newline or carriage return, and a slash
\* and star open a block comment, which lasts to the next star and slash;
\* outside comments a quote character opens or closes its own kind; in a
\* quote a backslash takes the next character with it.
QuoteKind(r) ==
    IF r = "'" THEN "single"
    ELSE IF r = "\"" THEN "double"
    ELSE IF r = BackTick THEN "backtick"
    ELSE "none"

\* The comments open at a character.
Comments(line, block) ==
    (IF line THEN {"line"} ELSE {}) \cup (IF block THEN {"block"} ELSE {})

RECURSIVE LexFrom(_, _, _, _, _, _, _)
LexFrom(text, p, quote, line, block, at, escaped) ==
    IF p > Len(text)
    THEN [at |-> at, escaped |-> escaped,
          quote |-> quote, line |-> line, block |-> block]
    ELSE
      LET r == text[p]
          hasNext == p < Len(text)
          next == IF hasNext THEN text[p + 1] ELSE ""
      IN  IF quote # "none"
          THEN IF r = "\\" /\ hasNext
               THEN LexFrom(text, p + 2, quote, line, block,
                            at \o <<{quote}, {quote}>>, escaped \cup {p + 1})
               ELSE LexFrom(text, p + 1,
                            IF QuoteKind(r) = quote THEN "none" ELSE quote,
                            line, block, Append(at, {quote}), escaped)
          ELSE
            LET lineHere == line \/ (r = "-" /\ next = "-")
                blockHere == block \/ (r = "/" /\ next = "*")
                here == Comments(lineHere, blockHere)
            IN  IF block /\ r = "*" /\ next = "/"
                THEN LexFrom(text, p + 2, "none", lineHere, FALSE,
                             at \o <<here, here>>, escaped)
                ELSE IF here # {}
                THEN LexFrom(text, p + 1, "none",
                             lineHere /\ r \notin {"\n", "\r"}, blockHere,
                             Append(at, here), escaped)
                ELSE LexFrom(text, p + 1, QuoteKind(r), FALSE, FALSE,
                             Append(at, IF QuoteKind(r) = "none"
                                        THEN {} ELSE {QuoteKind(r)}),
                             escaped)

\* Lex(text).at[p] is the set of quotes and comments open at the p-th
\* character (empty in plain code), Lex(text).escaped the positions a
\* backslash took with it; the other fields tell what is open at the end
\* of the text.
Lex(text) == LexFrom(text, 1, "none", FALSE, FALSE, <<>>, {})

QuoteKinds == {"single", "double", "backtick"}

CommentKinds == {"line", "block"}

\* The positions of the semicolons of a text in plain code, and of those
\* with one of the given kinds open.
CodeSemicolons(text) ==
    {p \in 1..Len(text) : text[p] = ";" /\ Lex(text).at[p] = {}}

SemicolonsIn(text, kinds) ==
    {p \in 1..Len(text) : text[p] = ";" /\ Lex(text).at[p] \cap kinds # {}}

\* --------------------------------------------------- segmenter claims

C13_EscapedQuoteKeepsQuoting ==
    spc = "done" =>
        \A p \in Lex(input).escaped :
            /\ p \in sc.quotedAt
            /\ p \notin sc.splitAt
            /\ (QuoteKind(input[p]) # "none" /\ p < Len(input) /\ input[p + 1] = ";")
                   => (p + 1 \in sc.quotedAt /\ p + 1 \notin sc.splitAt)

C13_Witness ==
    /\ spc = "done"
    /\ input = <<"'", "\\", "'", ";">>
    /\ sc.statements = <<[SQL |-> input, Vertical |-> FALSE]>>


\* A step that ends a segment: a separating semicolon or the end of the
\* text.  The segment is the buffer the step found.
EndsSegment == sc'.splitAt # sc.splitAt \/ (spc = "scan" /\ spc' = "done")

\* The units a step has appended.
NewUnits == SubSeq(sc'.statements, Len(sc.statements) + 1, Len(sc'.statements))

\* C14: a segment whose trimmed text ends with the marker gives a vertical
\* unit whose text leaves out the marker and the whitespace before it, any
\* other segment gives a unit that is not vertical and whose text is the
\* trimmed segment, and no unit's text ends with the marker.
C14_MarkerStripped ==
    [][EndsSegment =>
          LET seg == TrimSpace(sc.currentStatement)
          IN  /\ Len(NewUnits) <= 1
              /\ \A k \in 1..Len(NewUnits) :
                    LET u == NewUnits[k]
                    IN  /\ HasSuffix(seg, VerticalMarker) =>
                              /\ u.Vertical
                              /\ u.SQL = TrimRight(SubSeq(seg, 1, Len(seg) - 2))
                        /\ ~HasSuffix(seg, VerticalMarker) =>
                              /\ ~u.Vertical
                              /\ u.SQL = seg
                        /\ ~HasSuffix(u.SQL, VerticalMarker)]_vars

\* What holds of the marker: it is taken off once, so the first two parts
\* of C14 alone.
MarkerStrippedOnce ==
    [][EndsSegment =>
          LET seg == TrimSpace(sc.currentStatement)
          IN  /\ Len(NewUnits) <= 1
              /\ \A k \in 1..Len(NewUnits) :
                    LET u == NewUnits[k]
                    IN  /\ HasSuffix(seg, VerticalMarker) =>
                              /\ u.Vertical
                              /\ u.SQL = TrimRight(SubSeq(seg, 1, Len(seg) - 2))
                        /\ ~HasSuffix(seg, VerticalMarker) =>
                              /\ ~u.Vertical
                              /\ u.SQL = seg]_vars


\* The text a segment leaves for its unit: trimmed, and without the marker
\* and the whitespace before it.
Stripped(seg) ==
    LET t == TrimSpace(seg)
    IN  IF HasSuffix(t, VerticalMarker)
        THEN TrimSpace(SubSeq(t, 1, Len(t) - 2))
        ELSE t

\* C15: a segment that is empty, whitespace only, or empty once the marker
\* is stripped gives no unit; every unit has a non-empty text with no
\* whitespace at either end; and units are only ever added at the end, so
\* they stay in the order of their segments.
C15_EmptySegmentsDropped ==
    [][/\ (EndsSegment /\ Stripped(sc.currentStatement) = <<>>) => NewUnits = <<>>
       /\ \A k \in 1..Len(sc'.statements) :
             LET text == sc'.statements[k].SQL
             IN  /\ text # <<>>
                 /\ text[1] \notin WhiteSpace
                 /\ text[Len(text)] \notin WhiteSpace
       /\ Len(sc'.statements) >= Len(sc.statements)
       /\ SubSeq(sc'.statements, 1, Len(sc.statements)) = sc.statements]_vars

C15_Witness ==
    /\ spc = "done"
    /\ input = <<"\\", "G", ";", "a">>
    /\ sc.splitAt = {3}
    /\ sc.statements = <<[SQL |-> <<"a">>, Vertical |-> FALSE]>>


Unit(text, vertical) == [SQL |-> text, Vertical |-> vertical]

Select1 ==
    <<"S", "E", "L", "E", "C", "T", " ", "1">>

SelectQuoted ==
    <<"S", "E", "L", "E", "C", "T", " ", "'", "a", ";", "b", "'">>

Select2 ==
    <<"S", "E", "L", "E", "C", "T", " ", "2">>

CommentSelect2 ==
    <<"-", "-", " ", "c", ";", "d", "\n", "S", "E", "L", "E", "C", "T",
      " ", "2">>

\* C16: the scenario text gives exactly three units, in order: SELECT 1,
\* not vertical; SELECT 'a;b', not vertical; SELECT 2, vertical.
C16_ScenarioUnits ==
    (spc = "done" /\ input = ScenarioText) =>
        sc.statements = <<Unit(Select1, FALSE), Unit(SelectQuoted, FALSE),
                          Unit(Select2, TRUE)>>

\* C16 as the code has it: the third unit begins with the line comment that
\* precedes its statement.
C16_ScenarioUnitsWithComment ==
    (spc = "done" /\ input = ScenarioText) =>
        sc.statements = <<Unit(Select1, FALSE), Unit(SelectQuoted, FALSE),
                          Unit(CommentSelect2, TRUE)>>

C16_Witness ==
    /\ spc = "done"
    /\ input = ScenarioText
    /\ Len(sc.statements) = 3
    /\ sc.statements[3].Vertical
    /\ sc.splitAt = {9, 23}


\* The units of a text cut at the given positions: each piece between two
\* cuts, trimmed and without its marker, unless nothing is left of it.
RECURSIVE UnitsOf(_, _, _)
UnitsOf(text, from, cuts) ==
    IF from > Len(text) THEN <<>>
    ELSE LET later == {c \in cuts : c >= from}
             to == IF later = {} THEN Len(text) + 1
                   ELSE CHOOSE c \in later : \A d \in later : c <= d
             seg == SubSeq(text, from, to - 1)
             rest == UnitsOf(text, to + 1, cuts)
         IN  IF Stripped(seg) = <<>> THEN rest
             ELSE <<Unit(Stripped(seg), HasSuffix(TrimSpace(seg), VerticalMarker))>>
                      \o rest

CommentThenSelect2 ==
    <<"-", "-", " ", "c", " ", ";", " ", "d", "\n", "S", "E", "L", "E",
      "C", "T", " ", "2">>

\* C17: comment text stays, unchanged, in the unit it falls into.  No
\* commented semicolon is a cut, the units are the pieces of the text
\* between the cuts (trimmed, without the marker), and the text with a line
\* comment ahead of SELECT 2 gives that comment at the head of the second
\* unit.
C17_CommentKept ==
    spc = "done" =>
        /\ SemicolonsIn(input, CommentKinds) \cap sc.splitAt = {}
        /\ sc.statements = UnitsOf(input, 1, sc.splitAt)
        /\ input = LineCommentText =>
               sc.statements = <<Unit(Select1, FALSE),
                                 Unit(CommentThenSelect2, FALSE)>>

C17_Witness ==
    /\ spc = "done"
    /\ input = BlockCommentText
    /\ Len(sc.statements) = 2
    /\ SubSeq(sc.statements[2].SQL, 1, 2) = <<"/", "*">>
    /\ CountChar(";", sc.statements[2].SQL) = 1


\* How many pieces of a text cut at the given positions are not empty when
\* trimmed.
RECURSIVE NonEmptySegments(_, _, _)
NonEmptySegments(text, from, cuts) ==
    IF from > Len(text) THEN 0
    ELSE LET later == {c \in cuts : c >= from}
             to == IF later = {} THEN Len(text) + 1
                   ELSE CHOOSE c \in later : \A d \in later : c <= d
             seg == SubSeq(text, from, to - 1)
         IN  (IF TrimSpace(seg) = <<>> THEN 0 ELSE 1)
                 + NonEmptySegments(text, to + 1, cuts)

\* A text whose quotes are all closed and whose last character is a
\* terminator.
BalancedAndTerminated(text) ==
    /\ Lex(text).quote = "none"
    /\ Len(text) \in CodeSemicolons(text)

InPlainCode(s) == ~InQuote(s) /\ ~s.inLineComment /\ ~s.inBlockComment

\* C19: the end of the text acts as a terminator.  When the scan of a text
\* ends outside all quotes and comments, its units (texts and vertical
\* flags) are those of the same text followed by a semicolon.
C19_EndOfInputTerminates ==
    (spc = "done" /\ InPlainCode(sc)) =>
        sc.statements = splitSQLStatements(Append(input, ";"))

C19_Witness ==
    /\ spc = "done"
    /\ InPlainCode(sc)
    /\ input # <<>>
    /\ input[Len(input)] = "G"
    /\ sc.splitAt # {}
    /\ Len(sc.statements) = 1
    /\ sc.statements[1].Vertical


\* Longest text of quote characters scanned under SpecQuotes.
MaxQuoteLen == 4

\* Two quote characters, the separator, the characters of the marker, a
\* whitespace character and the characters of a block comment.
QuoteAlphabet == {"'", "\"", ";", "\\", "G", "\n", "/", "*"}

InitQuotes ==
    /\ input \in BoundedTexts(QuoteAlphabet, MaxQuoteLen)
    /\ sc = ScanInit
    /\ spc = "scan"
    /\ RunIdle
    /\ CallIdle

\* The segmenter on every text of quote characters.  The scan loop runs to
\* its end: the segmenter is sequential code and each of its steps is taken
\* once it can be.
SpecQuotes ==
    InitQuotes /\ [][NextSplit]_vars /\ WF_vars(Scan) /\ WF_vars(Finish)

\* The position at which the quote open at the end of a text was opened
\* (0 when none is open).
OpenQuoteAt(text) ==
    IF Lex(text).quote = "none" THEN 0
    ELSE CHOOSE q \in 1..Len(text) :
             /\ \A p \in q..Len(text) : Lex(text).at[p] \cap QuoteKinds # {}
             /\ q > 1 => Lex(text).at[q - 1] \cap QuoteKinds = {}

\* The text from the open quote to the end.
OpenQuoteText(text) == SubSeq(text, OpenQuoteAt(text), Len(text))

LastUnit == sc.statements[Len(sc.statements)]

\* C20: the segmenter is total.  On every text the scan ends and returns
\* its units, never reading past the end of the text; and when a quote is
\* still open at the end, nothing is cut after the opening quote and all
\* the text from there on is the end of the last unit.
C20_TotalAndQuoteTailKept ==
    /\ <>(spc = "done")
    /\ [](sc.i <= Len(input))
    /\ []((spc = "done" /\ OpenQuoteAt(input) > 0) =>
            /\ \A p \in sc.splitAt : p < OpenQuoteAt(input)
            /\ sc.statements # <<>>
            /\ HasSuffix(LastUnit.SQL, OpenQuoteText(input)))

\* C20 as the code has it: the last segment is trimmed and its marker is
\* stripped like any other, quoted or not.
C20_TotalAndQuoteTailStripped ==
    /\ <>(spc = "done")
    /\ [](sc.i <= Len(input))
    /\ []((spc = "done" /\ OpenQuoteAt(input) > 0) =>
            /\ \A p \in sc.splitAt : p < OpenQuoteAt(input)
            /\ sc.statements # <<>>
            /\ HasSuffix(LastUnit.SQL, Stripped(OpenQuoteText(input)))
            /\ CountChar(";", LastUnit.SQL) >= CountChar(";", OpenQuoteText(input)))

C20_Witness ==
    /\ spc = "done"
    /\ OpenQuoteAt(input) = 3
    /\ sc.splitAt = {2}
    /\ Len(sc.statements) = 2
    /\ LastUnit.SQL = <<"'", ";">>


\* ------------------------------------------- executor and main, claims

\* The executor of instance i has been called.
Started(i) == xpc[i] \notin {"idle", "dead"}

\* C21: in sequential mode one endpoint is processed fully before the next.
\* When the executor of an endpoint has been called, every endpoint before
\* it has run all its statements (if it connected), released its handle,
\* returned and had its outcomes printed; at most one handle is open at any
\* time; and the outcomes are printed endpoint by endpoint in input order.
C21_SequentialOneAtATime ==
    ~concurrent =>
        /\ Cardinality({i \in Instances : conn[i] = "open"}) <= 1
        /\ \A j \in Instances : Started(j) =>
              \A i \in 1..(j - 1) :
                  /\ xpc[i] = "exited"
                  /\ conn[i] # "open"
                  /\ link[i] = "ready" => queried[i] = Len(StatementList)
                  /\ sent[i] = Len(results[i])
                  /\ EmittedOf(i) = results[i]
        /\ InputOrder
        /\ Contiguous

C21_Witness ==
    /\ ~concurrent
    /\ Len(instanceList) >= 2
    /\ conn[1] = "closed"
    /\ conn[2] = "open"
    /\ xpc[2] = "query"
    /\ Len(StatementList) = 2
    /\ EmittedOf(1) = results[1]
    /\ Len(results[1]) = 2


\* C22: when rows.Columns fails for a statement that executed, no rows are
\* collected for it.  Its one outcome carries the column error, no rows and
\* row count 0, and the executor goes on: statement k still has result k,
\* and on return every statement has been executed.
C22_ColumnFailureNoRows ==
    \A i \in Instances : \A k \in 1..Len(results[i]) :
        results[i][k].Err = "columns" =>
            /\ results[i][k].Rows = <<>>
            /\ results[i][k].RowCount = 0
            /\ results[i][k].Statement = OriginalStmt(StatementList[k])
            /\ xpc[i] \in {"query", "rows"} => xk[i] > k
            /\ Returned(i) =>
                  /\ Len(results[i]) = Len(StatementList)
                  /\ queried[i] = Len(StatementList)

C22_Witness ==
    \E i \in Instances :
        /\ Returned(i)
        /\ Len(results[i]) = 2
        /\ results[i][1].Err = "columns"
        /\ results[i][2].Err = "nil"
        /\ results[i][2].RowCount = 1


\* The db.Query calls of executor i, in call order.
QueryCalls(i) == SelectSeq(dblog[i], LAMBDA c : c.call = "query")

\* C23: a row that fails to decode is skipped and the statement goes on.
\* For every statement whose rows were processed with the columns at hand,
\* the outcome's rows are exactly the rows that decoded, in fetch order, and
\* its error is the first one met: the decode error of the first bad row if
\* there is one, else the iteration error if there is one, else none.
C23_BadRowSkipped ==
    \A i \in Instances : \A k \in 1..Len(results[i]) :
        link[i] = "ready" =>
            LET call == QueryCalls(i)[k]
                ev == call.events
                r == results[i][k]
                good == {p \in 1..Len(ev) : ev[p] = "row"}
                bad == {p \in 1..Len(ev) : ev[p] = "bad"}
            IN  (~call.failed /\ ~call.colErr) =>
                /\ Len(r.Rows) = Cardinality(good)
                /\ \A n \in 1..Len(r.Rows) :
                      /\ r.Rows[n] \in good
                      /\ \A m \in 1..(n - 1) : r.Rows[m] < r.Rows[n]
                /\ \A p \in bad :
                      (\A q \in bad : p <= q) => r.Err = ScanError(p)
                /\ (bad = {} /\ call.iterErr) => r.Err = "iteration"
                /\ (bad = {} /\ ~call.iterErr) => r.Err = "nil"

\* C23 witness: the first row failed to decode, the second was kept, the
\* iteration then ended with an error, and the next statement still ran.
C23_Witness ==
    \E i \in Instances :
        /\ Returned(i)
        /\ Len(results[i]) = 2
        /\ QueryCalls(i)[1].events = <<"bad", "row">>
        /\ QueryCalls(i)[1].iterErr
        /\ results[i][1].Rows = <<2>>
        /\ results[i][1].Err = ScanError(1)
        /\ results[i][2].Err = "nil"


\* How many calls of one kind executor i made.
CallCount(i, call) ==
    Cardinality({n \in 1..Len(dblog[i]) : dblog[i][n].call = call})

\* C24: nothing is retried.  Every endpoint entry is opened at most once and
\* pinged at most once, the n-th db.Query call of an executor is for the
\* n-th statement unit, so no unit is executed twice, and an executor that
\* connected and returned has executed every unit.
C24_NoRetry ==
    \A i \in Instances :
        /\ CallCount(i, "open") <= 1
        /\ CallCount(i, "ping") <= 1
        /\ \A n \in 1..Len(QueryCalls(i)) : QueryCalls(i)[n].unit = n
        /\ (link[i] = "ready" /\ Returned(i)) =>
              Len(QueryCalls(i)) = Len(StatementList)
        /\ link[i] \in {"openfailed", "pingfailed"} => Len(QueryCalls(i)) = 0

\* C24 witness: two endpoints were each opened and pinged once and have
\* returned, and one of them executed two units, the first of which failed,
\* each exactly once.
C24_Witness ==
    \E i, j \in Instances :
        /\ i # j
        /\ link[i] = "ready" /\ Returned(i)
        /\ link[j] = "ready" /\ Returned(j)
        /\ CallCount(i, "open") = 1 /\ CallCount(i, "ping") = 1
        /\ CallCount(j, "open") = 1 /\ CallCount(j, "ping") = 1
        /\ Len(QueryCalls(j)) = 2
        /\ QueryCalls(j)[1].failed
        /\ ~QueryCalls(j)[2].failed


\* C25: the outcome of a statement whose execution failed.  It carries the
\* endpoint, the error, the unit's vertical flag, no rows and no columns, and
\* as statement text the unit's text, with the marker put back exactly when
\* the unit is vertical; the text sent to the database is the unit's text,
\* without the marker put back, whether the call failed or not.
C25_QueryFailureOutcome ==
    \A i \in Instances :
        LET calls == QueryCalls(i)
        IN  \A k \in 1..Len(calls) :
                LET unit == StatementList[k]
                    call == calls[k]
                IN  /\ call.text = unit.SQL
                    /\ unit.Vertical => call.text # unit.SQL \o VerticalMarker
                    /\ (call.failed /\ k <= Len(results[i])) =>
                          LET r == results[i][k]
                          IN  /\ r.Instance = instanceList[i]
                              /\ r.Err = "query"
                              /\ r.VerticalFormat = unit.Vertical
                              /\ r.Rows = <<>>
                              /\ r.Columns = <<>>
                              /\ r.RowCount = 0
                              /\ unit.Vertical =>
                                    r.Statement = unit.SQL \o VerticalMarker
                              /\ ~unit.Vertical => r.Statement = unit.SQL

\* C25 witness: a vertical unit and a plain unit both failed to execute.
C25_Witness ==
    \E i \in Instances : \E k, n \in 1..Len(results[i]) :
        /\ Returned(i)
        /\ link[i] = "ready"
        /\ QueryCalls(i)[k].failed
        /\ QueryCalls(i)[n].failed
        /\ StatementList[k].Vertical
        /\ ~StatementList[n].Vertical
        /\ results[i][k].Statement = QueryCalls(i)[k].text \o VerticalMarker
        /\ results[i][n].Statement = QueryCalls(i)[n].text


\* ------------------------------------------------------ password masking

\* The longest password of a DSN handed to maskPasswordInDSN.
MaxPwLen == 2

\* A DSN is a sequence of characters; the protocol openers "tcp(" and
\* "unix(" are single symbols, and no other symbol is a letter of theirs, so
\* a search for an opener finds exactly the places where its bytes occur.
Protocols == {"tcp(", "unix("}

MaskText == <<"*", "*", "*", "*">>

\* What a password may be made of: a plain character, the two separators the
\* function looks for, and the openers.
PwAlphabet == {"p", "@", ":"} \cup Protocols

\* strings.Index, 1-based, 0 when absent.
Index(s, sym) ==
    IF \E p \in 1..Len(s) : s[p] = sym
    THEN CHOOSE p \in 1..Len(s) : s[p] = sym /\ \A q \in 1..(p - 1) : s[q] # sym
    ELSE 0

\* strings.LastIndex, 1-based, 0 when absent.
LastIndex(s, sym) ==
    IF \E p \in 1..Len(s) : s[p] = sym
    THEN CHOOSE p \in 1..Len(s) : s[p] = sym /\ \A q \in (p + 1)..Len(s) : s[q] # sym
    ELSE 0

\* strings.Contains on symbol sequences.
Occurs(sub, s) ==
    \E p \in 0..(Len(s) - Len(sub)) : SubSeq(s, p + 1, p + Len(sub)) = sub

\* [protocol[(address)]]/dbname
HostPart(d) ==
    (IF d.proto = "none" THEN d.address ELSE <<d.proto>> \o d.address \o <<")">>)
        \o <<"/">> \o d.db

\* [user[:password]@][protocol[(address)]]/dbname
FormatDSN(d) ==
    (IF d.hasUser
     THEN d.user \o (IF d.hasPassword THEN <<":">> \o d.password ELSE <<>>) \o <<"@">>
     ELSE <<>>) \o HostPart(d)

\* Mutant: the password is cut at the first '@' instead of the last one
\* before the protocol.
maskPasswordInDSN_FirstAt(dsn) ==
    LET protocolIdx == IF Index(dsn, "tcp(") # 0 THEN Index(dsn, "tcp(")
                       ELSE Index(dsn, "unix(")
    IN  IF protocolIdx = 0 THEN dsn
        ELSE LET atIdx == Index(SubSeq(dsn, 1, protocolIdx - 1), "@")
             IN  IF atIdx = 0 THEN dsn
                 ELSE LET userInfo == SubSeq(dsn, 1, atIdx - 1)
                          hostInfo == SubSeq(dsn, atIdx + 1, Len(dsn))
                          colonIdx == Index(userInfo, ":")
                      IN  IF colonIdx = 0 THEN dsn
                          ELSE SubSeq(userInfo, 1, colonIdx - 1)
                                   \o <<":">> \o MaskText \o <<"@">> \o hostInfo

maskPasswordInDSN(dsn) ==
    LET protocolIdx == IF Index(dsn, "tcp(") # 0 THEN Index(dsn, "tcp(")
                       ELSE Index(dsn, "unix(")
    IN  IF protocolIdx = 0 THEN dsn
        ELSE LET atIdx == LastIndex(SubSeq(dsn, 1, protocolIdx - 1), "@")
             IN  IF atIdx = 0 THEN dsn
                 ELSE LET userInfo == SubSeq(dsn, 1, atIdx - 1)
                          hostInfo == SubSeq(dsn, atIdx + 1, Len(dsn))
                          colonIdx == Index(userInfo, ":")
                      IN  IF colonIdx = 0 THEN dsn
                          ELSE SubSeq(userInfo, 1, colonIdx - 1)
                                   \o <<":">> \o MaskText \o <<"@">> \o hostInfo

\* PrintResultWithVerbosity computes the label of the result's instance.
MaskPassword ==
    /\ fpc = "mask"
    /\ ret' = maskPasswordInDSN(FormatDSN(arg))
    /\ fpc' = "masked"
    /\ UNCHANGED <<arg, runVars, scanVars>>

\* The DSNs masked: with a user and any password of at most MaxPwLen
\* symbols, with a user and no password, or with no user at all; over tcp,
\* over a unix socket or with no protocol part.
DSNParts ==
    { d \in [hasUser : BOOLEAN, user : {<<"a">>}, hasPassword : BOOLEAN,
             password : BoundedTexts(PwAlphabet, MaxPwLen),
             proto : Protocols \cup {"none"}, address : {<<"h">>},
             db : {<<>>, <<"d">>}] :
        /\ d.hasPassword => d.hasUser
        /\ ~d.hasPassword => d.password = <<>> }

InitMask ==
    /\ arg \in DSNParts
    /\ fpc = "mask"
    /\ ret = <<>>
    /\ RunIdle
    /\ ScanIdle

NextMask == MaskPassword

SpecMask == InitMask /\ [][NextMask]_vars

\* The label the claim expects for a DSN with a password.
MaskedLabel(d) == d.user \o <<":">> \o MaskText \o <<"@">> \o HostPart(d)

\* C26: password masking.  For every DSN user:password@tcp(...) or
\* user:password@unix(...), whatever the password, the label is the DSN with
\* the password replaced by **** and does not contain the password (a
\* password that occurs in the masked label anyway aside); a DSN with no
\* password is returned unchanged.
C26_PasswordMasked ==
    fpc = "masked" =>
        /\ (arg.hasPassword /\ arg.proto \in Protocols) =>
              /\ ret = MaskedLabel(arg)
              /\ (arg.password # <<>> /\ ~Occurs(arg.password, MaskedLabel(arg))) =>
                    ~Occurs(arg.password, ret)
        /\ ~arg.hasPassword => ret = FormatDSN(arg)

\* What does hold: the claim for the passwords that contain no protocol
\* opener, among them those that contain '@' or ':'.
PasswordMaskedWithoutOpener ==
    fpc = "masked" =>
        /\ (/\ arg.hasPassword
            /\ arg.proto \in Protocols
            /\ \A p \in 1..Len(arg.password) : arg.password[p] \notin Protocols) =>
              /\ ret = MaskedLabel(arg)
              /\ (arg.password # <<>> /\ ~Occurs(arg.password, MaskedLabel(arg))) =>
                    ~Occurs(arg.password, ret)
        /\ ~arg.hasPassword => ret = FormatDSN(arg)

PasswordWithAtMasked ==
    /\ fpc = "masked"
    /\ arg.password = <<"p", "@">>
    /\ arg.proto = "unix("
    /\ ret = MaskedLabel(arg)


\* ---------------------------------------------------- credential filling

\* MyCnf: every field is empty or set.
MyCnfs ==
    [User : {<<>>, <<"U">>}, Password : {<<>>, <<"P">>}, Host : {<<>>, <<"H">>},
     Port : {<<>>, <<"9">>}, Database : {<<>>, <<"D">>}]

\* The DSNs filled: with or without the credentials part ending in '@', the
\* user and the password present or empty, no host part, a tcp part with a
\* host or with a port only, and the database present or empty.
FillParts ==
    { d \in [hasUser : BOOLEAN, user : {<<>>, <<"a">>}, hasPassword : BOOLEAN,
             password : {<<>>, <<"p">>}, proto : {"none", "tcp("},
             address : {<<>>, <<"h", ":", "3">>, <<":", "3">>},
             db : {<<>>, <<"d">>}] :
        /\ ~d.hasUser => (d.user = <<>> /\ ~d.hasPassword)
        /\ ~d.hasPassword => d.password = <<>>
        /\ (d.proto = "none") <=> (d.address = <<>>) }

\* strings.SplitN(s, sep, 2): the part before the first sep and the part
\* after it, or s alone.
SplitN2(s, sep) ==
    IF Index(s, sep) = 0 THEN <<s>>
    ELSE <<SubSeq(s, 1, Index(s, sep) - 1), SubSeq(s, Index(s, sep) + 1, Len(s))>>

\* Mutant: the host part of the DSN is ignored and always built from MyCnf.
FillDSN_NetlocFromCnf(dsn, cnf) ==
    LET parts == SplitN2(dsn, "@")
        up == IF Len(parts) = 2 THEN SplitN2(parts[1], ":") ELSE <<>>
        netdb == IF Len(parts) = 2 THEN SplitN2(parts[2], "/") ELSE <<>>
        user0 == IF Len(up) > 0 THEN up[1] ELSE <<>>
        pass0 == IF Len(up) = 2 THEN up[2] ELSE <<>>
        db0 == IF Len(netdb) = 2 THEN netdb[2] ELSE <<>>
        user == IF user0 = <<>> THEN cnf.User ELSE user0
        pass == IF pass0 = <<>> THEN cnf.Password ELSE pass0
        host == IF cnf.Host # <<>> THEN cnf.Host ELSE <<"localhost">>
        port == IF cnf.Port # <<>> THEN cnf.Port ELSE <<"3306">>
        netloc == <<"tcp(">> \o host \o <<":">> \o port \o <<")">>
        db == IF db0 = <<>> THEN cnf.Database ELSE db0
    IN  user \o <<":">> \o pass \o <<"@">> \o netloc \o <<"/">> \o db

FillDSN(dsn, cnf) ==
    LET parts == SplitN2(dsn, "@")
        up == IF Len(parts) = 2 THEN SplitN2(parts[1], ":") ELSE <<>>
        netdb == IF Len(parts) = 2 THEN SplitN2(parts[2], "/") ELSE <<>>
        user0 == IF Len(up) > 0 THEN up[1] ELSE <<>>
        pass0 == IF Len(up) = 2 THEN up[2] ELSE <<>>
        netloc0 == IF Len(netdb) > 0 THEN netdb[1] ELSE <<>>
        db0 == IF Len(netdb) = 2 THEN netdb[2] ELSE <<>>
        user == IF user0 = <<>> THEN cnf.User ELSE user0
        pass == IF pass0 = <<>> THEN cnf.Password ELSE pass0
        host == IF cnf.Host # <<>> THEN cnf.Host ELSE <<"localhost">>
        port == IF cnf.Port # <<>> THEN cnf.Port ELSE <<"3306">>
        netloc == IF netloc0 = <<>>
                  THEN <<"tcp(">> \o host \o <<":">> \o port \o <<")">>
                  ELSE netloc0
        db == IF db0 = <<>> THEN cnf.Database ELSE db0
    IN  user \o <<":">> \o pass \o <<"@">> \o netloc \o <<"/">> \o db

\* dsnHasHost: the DSN has "@tcp(" after its first '@', a closing
\* parenthesis after that, and a non-empty host before the port's colon.
dsnHasHost(dsn) ==
    LET protoIdx == Index(dsn, "@")
        tcps == {p \in protoIdx..(Len(dsn) - 1) :
                    p > 0 /\ dsn[p] = "@" /\ dsn[p + 1] = "tcp("}
    IN  /\ protoIdx # 0
        /\ tcps # {}
        /\ LET tcpIdx == CHOOSE p \in tcps : \A q \in tcps : p <= q
               tail == SubSeq(dsn, tcpIdx + 2, Len(dsn))
               endHostIdx == Index(tail, ")")
           IN  /\ endHostIdx # 0
               /\ SplitN2(SubSeq(tail, 1, endHostIdx - 1), ":")[1] # <<>>

\* main, with a .my.cnf at hand: FillDSN, with the host of .my.cnf blanked
\* when the DSN names a host.
FillFromCnf ==
    /\ fpc = "fill"
    /\ LET dsn == FormatDSN(arg.dsn)
       IN  ret' = IF ~dsnHasHost(dsn) THEN FillDSN(dsn, arg.cnf)
                  ELSE FillDSN(dsn, [arg.cnf EXCEPT !.Host = <<>>])
    /\ fpc' = "filled"
    /\ UNCHANGED <<arg, runVars, scanVars>>

InitFill ==
    /\ arg \in [dsn : FillParts, cnf : MyCnfs]
    /\ fpc = "fill"
    /\ ret = <<>>
    /\ RunIdle
    /\ ScanIdle

NextFill == FillFromCnf

SpecFill == InitFill /\ [][NextFill]_vars


\* The DSN the claim expects: each part the DSN has, else the part of MyCnf.
FilledDSN(d, cnf) ==
    LET user == IF d.user # <<>> THEN d.user ELSE cnf.User
        pass == IF d.password # <<>> THEN d.password ELSE cnf.Password
        netloc == IF d.proto # "none" THEN <<d.proto>> \o d.address \o <<")">>
                  ELSE <<"tcp(">> \o cnf.Host \o <<":">> \o cnf.Port \o <<")">>
        db == IF d.db # <<>> THEN d.db ELSE cnf.Database
    IN  user \o <<":">> \o pass \o <<"@">> \o netloc \o <<"/">> \o db

\* The DSN has a host part, or MyCnf has both a host and a port for it.
HostSettled(a) ==
    a.dsn.proto # "none" \/ (a.cnf.Host # <<>> /\ a.cnf.Port # <<>>)

\* C27: credential filling only fills missing parts.  For every DSN and
\* every MyCnf, each of user, password, host part and database that the DSN
\* has is kept unchanged in the result, and each part it lacks is taken from
\* MyCnf; host and port of MyCnf are used only when the DSN has no host part.
C27_OnlyMissingFilled ==
    (fpc = "filled" /\ HostSettled(arg)) => ret = FilledDSN(arg.dsn, arg.cnf)

\* What does hold: the claim for the DSNs that have the '@' of the
\* credentials part.
OnlyMissingFilledAfterAt ==
    (fpc = "filled" /\ HostSettled(arg) /\ arg.dsn.hasUser) =>
        ret = FilledDSN(arg.dsn, arg.cnf)

HostKeptPasswordFilled ==
    /\ fpc = "filled"
    /\ FormatDSN(arg.dsn) = <<"a", "@", "tcp(", "h", ":", "3", ")", "/", "d">>
    /\ arg.cnf.Host = <<"H">>
    /\ ret = <<"a", ":", "P", "@", "tcp(", "h", ":", "3", ")", "/", "d">>


\* ------------------------------------------------- loading the run's input

\* The longest --instances flag of a run that is loaded.
MaxFlagLen == 2

\* strings.Split(s, sep)
RECURSIVE Split(_, _)
Split(s, sep) ==
    IF Index(s, sep) = 0 THEN <<s>>
    ELSE <<SubSeq(s, 1, Index(s, sep) - 1)>>
             \o Split(SubSeq(s, Index(s, sep) + 1, Len(s)), sep)

\* Mutant: blank entries of --instances are kept.
InstancesOf_KeepBlank(flag) ==
    Split(flag, ",")

\* The instance list made of --instances: the entries between commas,
\* trimmed, the empty ones skipped.
InstancesOf(flag) ==
    SelectSeq([n \in 1..Len(Split(flag, ",")) |-> TrimSpace(Split(flag, ",")[n])],
              LAMBDA dsn : dsn # <<>>)

\* The flags of a run and what the environment does with the files they
\* name: --instances is a text of entries "d" between commas and blanks,
\* --json, --sqlfile, --file and --statements are empty or given, servers is
\* how many servers the JSON file holds (-1: it cannot be read or parsed),
\* and readable says whether stdin or the SQL file can be read.
Configs ==
    [instances : BoundedTexts({"d", ",", " "}, MaxFlagLen),
     jsonFile : {<<>>, <<"j">>}, servers : {-1, 0, 1},
     stdin : BOOLEAN, sqlFile : {<<>>, <<"q">>}, file : {<<>>, <<"f">>},
     statements : {<<>>, <<"s">>}, readable : BOOLEAN]

\* How many instances main has once the instances are loaded, or -1 when
\* loading them ended the process.
LoadedInstances(c) ==
    IF c.jsonFile # <<>> THEN c.servers ELSE Len(InstancesOf(c.instances))

\* main up to the start of the executions: "rejected" when it printed an
\* error and left with os.Exit(1), "accepted" when it goes on to execute.
LoadVerdict(c) ==
    IF c.instances = <<>> /\ c.jsonFile = <<>> THEN "rejected"
    ELSE IF LoadedInstances(c) <= 0 THEN "rejected"
    ELSE IF c.stdin \/ c.sqlFile # <<>> \/ c.file # <<>>
         THEN IF c.readable THEN "accepted" ELSE "rejected"
    ELSE IF c.statements # <<>> THEN "accepted"
    ELSE "rejected"

\* main from the parsed flags to the first execution.
Load ==
    /\ fpc = "load"
    /\ ret' = LoadVerdict(arg)
    /\ fpc' = "loaded"
    /\ UNCHANGED <<arg, runVars, scanVars>>

InitLoad ==
    /\ arg \in Configs
    /\ fpc = "load"
    /\ ret = <<>>
    /\ RunIdle
    /\ ScanIdle

NextLoad == Load

SpecLoad == InitLoad /\ [][NextLoad]_vars


NoEndpointFlag(c) == c.instances = <<>> /\ c.jsonFile = <<>>

NoSQLSource(c) ==
    ~c.stdin /\ c.sqlFile = <<>> /\ c.file = <<>> /\ c.statements = <<>>

\* Every file the flags name can be read, and the JSON file parses.
AllReadable(c) == c.readable /\ (c.jsonFile # <<>> => c.servers >= 0)

\* The flags name endpoints but none is left to run on: the JSON file, which
\* is read when given, holds no server, or --instances holds nothing but
\* commas and blanks.
NoInstanceLeft(c) ==
    IF c.jsonFile # <<>> THEN c.servers = 0
    ELSE \A p \in 1..Len(c.instances) : c.instances[p] \in {",", " "}

BlankInstancesRejected ==
    /\ fpc = "loaded"
    /\ arg.instances = <<" ">>
    /\ arg.jsonFile = <<>>
    /\ arg.statements # <<>>
    /\ ret = "rejected"


\* C29: a comment closes at its own terminator whatever it contains.  The
\* step that ends a block comment leaves the scanner in no comment state,
\* the step that ends a line comment leaves it in no comment state, and the
\* two comment states are never active together.
C29_CommentsCloseAtOwnTerminator ==
    [][/\ (sc.inBlockComment /\ ~sc'.inBlockComment) => ~sc'.inLineComment
       /\ (sc.inLineComment /\ ~sc'.inLineComment) => ~sc'.inBlockComment
       /\ ~(sc'.inLineComment /\ sc'.inBlockComment)]_vars

\* What does hold: each comment flag is cleared by its own terminator, the
\* line flag by the newline and the block flag by the star before a slash.
EachFlagClearedAtItsTerminator ==
    [][(spc = "scan" /\ sc.i < Len(input)) =>
          LET r == input[sc.i + 1]
              next == IF sc.i + 2 <= Len(input) THEN input[sc.i + 2] ELSE ""
              opener == (r = "-" /\ next = "-") \/ (r = "/" /\ next = "*")
          IN  /\ (sc.inLineComment /\ r \in {"\n", "\r"}) => ~sc'.inLineComment
              /\ (sc.inBlockComment /\ ~opener /\ r = "*" /\ next = "/") =>
                    ~sc'.inBlockComment]_vars


\* How many quote states are active.
OpenQuotes(s) ==
    Cardinality({q \in {"single", "double", "backtick"} :
                    \/ q = "single" /\ s.inSingleQuote
                    \/ q = "double" /\ s.inDoubleQuote
                    \/ q = "backtick" /\ s.inBacktick})

\* C30: quote states are mutually exclusive and never nest.  After every
\* step at most one quote state is active and none is active together with
\* a comment state, and a quote state changes only at a quote character of
\* its own kind read while no other kind is active.
C30_QuotesExclusive ==
    [][LET r == IF sc.i < Len(input) THEN input[sc.i + 1] ELSE ""
       IN  /\ OpenQuotes(sc') <= 1
           /\ InQuote(sc') => (~sc'.inLineComment /\ ~sc'.inBlockComment)
           /\ sc'.inSingleQuote # sc.inSingleQuote =>
                 (r = "'" /\ ~sc.inDoubleQuote /\ ~sc.inBacktick)
           /\ sc'.inDoubleQuote # sc.inDoubleQuote =>
                 (r = "\"" /\ ~sc.inSingleQuote /\ ~sc.inBacktick)
           /\ sc'.inBacktick # sc.inBacktick =>
                 (r = BackTick /\ ~sc.inSingleQuote /\ ~sc.inDoubleQuote)]_vars

\* C30 witness: a double quote was read inside a single-quoted string and the
\* string is still open, alone.
C30_Witness ==
    /\ spc = "scan"
    /\ sc.i >= 2
    /\ input[sc.i] = "\""
    /\ sc.inSingleQuote
    /\ ~sc.inDoubleQuote
    /\ ~sc.inBacktick


\* ------------------------------------------- quote characters in comments

\* The longest text of comment characters, apostrophes and semicolons.
MaxCqLen == 5

CqAlphabet == {"-", "/", "*", "\n", "'", ";"}

\* The segmenter on every text of comment characters, apostrophes and
\* semicolons of at most MaxCqLen characters.
InitCommentQuotes ==
    /\ input \in BoundedTexts(CqAlphabet, MaxCqLen)
    /\ sc = ScanInit
    /\ spc = "scan"
    /\ RunIdle
    /\ CallIdle

SpecCommentQuotes == InitCommentQuotes /\ [][NextSplit]_vars

\* The positions of the quote characters that lie in a comment.
QuotesInComments(text) ==
    {p \in 1..Len(text) :
        /\ QuoteKind(text[p]) # "none"
        /\ Lex(text).at[p] \cap CommentKinds # {}}

Phase(i) ==
    CASE xpc[i] = "idle" -> "Idle"
      [] xpc[i] \in {"open", "ping"} -> "Connecting"
      [] xpc[i] = "query" -> "Executing"
      [] xpc[i] = "rows" -> "Collecting"
      [] xpc[i] \in {"returned", "exited"} ->
             IF ConnectFailed(i) THEN "Failed" ELSE "Done"
      [] OTHER -> "Dead"

\* The steps of the life cycle; Ready is the moment Executing is entered
\* from Connecting.  An executor may stay where it is while another part of
\* the program steps.
PhaseSteps ==
    {<<"Idle", "Connecting">>, <<"Connecting", "Failed">>,
     <<"Connecting", "Executing">>, <<"Executing", "Collecting">>,
     <<"Collecting", "Executing">>, <<"Executing", "Done">>}
    \cup {<<ph, ph>> : ph \in {"Idle", "Connecting", "Executing", "Collecting",
                               "Failed", "Done"}}

\* The calls of executor i whose result set is open.
OpenCursors(i) == {n \in 1..Len(dblog[i]) : dblog[i][n].cursor}

\* C32: the executor goes Idle, Connecting, then Failed or Ready, then
\* Executing and Collecting in turn, then Done; Failed and Done are final.
\* sql.Open is the first call, db.Ping the second and every db.Query comes
\* after both succeeded.  A db.Query is issued only when no result set of
\* the connection is open, whatever the statement before it met (rows,
\* a column failure, decode errors), so at most one cursor is open at any
\* time, and none is open once the executor has returned.  A panic ends the
\* process and every executor with it, at whatever point they are: the life
\* cycle is that of the executors of a living process.
C32_LifeCycleAndCursors ==
    [][mpc' # "crashed" => \A i \in Instances :
          /\ <<Phase(i), Phase(i)'>> \in PhaseSteps
          /\ (Phase(i) \in {"Failed", "Done"} => dblog'[i] = dblog[i])
          /\ \A n \in 1..Len(dblog'[i]) :
                LET c == dblog'[i][n]
                IN  /\ c.call = "open" <=> n = 1
                    /\ c.call = "ping" <=> n = 2
                    /\ n > 1 => ~dblog'[i][1].failed
                    /\ n > 2 => ~dblog'[i][2].failed
          /\ Len(dblog'[i]) > Len(dblog[i]) => OpenCursors(i) = {}
          /\ Cardinality(OpenCursors(i)') <= 1
          /\ Phase(i)' \in {"Failed", "Done"} => OpenCursors(i)' = {}]_vars

\* An executor has returned after a statement whose columns failed, one
\* with a row that did not decode and one after them, all cursors closed.
C32_Witness ==
    \E i \in Instances :
        /\ Phase(i) = "Done"
        /\ OpenCursors(i) = {}
        /\ \E a, b, c \in 1..Len(QueryCalls(i)) :
              /\ a < c /\ b < c
              /\ QueryCalls(i)[a].colErr
              /\ FirstBad(QueryCalls(i)[b].events)
              /\ ~QueryCalls(i)[c].failed


\* ---------------------------------------------------------------------
\* Connection handles.

\* C33: every handle that sql.Open returned is released exactly once, at the
\* return of its executor, on every path.  The handle of an executor goes
\* from none to open and from open to closed and nowhere else; it is
\* released in the very step in which the executor returns and is never open
\* after the return, be it after the last statement, after a failed ping or
\* with an empty statement list; and a call to the database by executor i
\* after its sql.Open is made while the handle of i is open and touches the
\* handle and the calls of no other executor.
C33_HandleReleasedOnce ==
    [][mpc' # "crashed" => \A i \in Instances :
          /\ conn'[i] # conn[i] =>
                <<conn[i], conn'[i]>> \in {<<"none", "open">>, <<"open", "closed">>}
          /\ (conn[i] = "open" /\ conn'[i] = "closed")
                <=> (conn[i] = "open" /\ ~Returned(i) /\ Returned(i)')
          /\ Returned(i)' => conn'[i] # "open"
          /\ dblog'[i] # dblog[i] =>
                /\ Len(dblog[i]) >= 1 => (conn[i] = "open" /\ ~dblog[i][1].failed)
                /\ \A j \in Instances \ {i} :
                      conn'[j] = conn[j] /\ dblog'[j] = dblog[j]]_vars

\* One executor returned after a failed ping and another after its last
\* statement, both with their handle released.
C33_Witness ==
    \E i, j \in Instances :
        /\ Returned(i) /\ link[i] = "pingfailed" /\ conn[i] = "closed"
        /\ Returned(j) /\ link[j] = "ready" /\ conn[j] = "closed"
        /\ Len(results[j]) = Len(StatementList)


\* ---------------------------------------------------------------------
\* Workers per entry.

\* The executor of entry i runs or waits to hand over its results.
Active(i) == xpc[i] \in {"open", "ping", "query", "rows", "returned"}

\* C34: in concurrent mode the launch loop starts one worker for each entry
\* of the instance list, an entry whose DSN stands earlier in the list
\* included.  A worker is started once, by the loop iteration of its own
\* entry; during the loop the entries before the loop index are exactly the
\* started ones, after it all are, and the wait group counts the workers
\* that have not finished.  In sequential mode at most one executor is
\* active at any time.
C34_OneWorkerPerEntry ==
    [][mpc' # "crashed" =>
          /\ \A i \in Instances :
                (xpc'[i] = "open" /\ xpc[i] # "open") => (xpc[i] = "idle" /\ mi = i)
          /\ \A i \in Instances : xpc'[i] = "idle" => xpc[i] = "idle"
          /\ concurrent' =>
                /\ mpc' = "spawn" => \A i \in Instances : Started(i)' <=> i < mi'
                /\ mpc' # "spawn" => \A i \in Instances : Started(i)'
                /\ wg' = Cardinality({i \in Instances : Active(i)'})
          /\ ~concurrent' => Cardinality({i \in Instances : Active(i)'}) <= 1]_vars

\* No cap: every entry of a list of NumInstances entries, two of them with
\* the same DSN, has a worker holding an open handle at the same time.
C34_Witness ==
    /\ concurrent
    /\ Len(instanceList) = NumInstances
    /\ \E i, j \in Instances : i < j /\ instanceList[i] = instanceList[j]
    /\ \A i \in Instances : conn[i] = "open" /\ Running(i)


\* ---------------------------------------------------------------------
\* The handoff of results.

\* How often outcome r stands in a sequence.
Occurrences(seq, r) == Cardinality({p \in 1..Len(seq) : seq[p] = r})

\* How often outcome r stands among the first upTo[i] results of the
\* executors i.
ReturnedOccurrences(upTo, r) ==
    Cardinality({ik \in UNION {{<<i, k>> : k \in 1..upTo[i]} : i \in Instances} :
                    results[ik[1]][ik[2]] = r})

\* Every outcome of the run: returned, in the channel or printed.
Outcomes ==
    {emitted[p] : p \in 1..Len(emitted)}
        \cup (IF mpc = "print" THEN {res} ELSE {})
        \cup UNION {{results[i][k] : k \in 1..Len(results[i])} : i \in Instances}

\* C35: in concurrent mode an outcome reaches main only through the
\* channel and is delivered exactly once.  In every state each outcome is
\* printed or held by main as often as the workers have sent it, and at
\* completion it is printed as often as the executors returned it: none
\* lost, none duplicated, none invented.  A worker hands over its next
\* unsent outcome in a step in which main stands at the receive and takes
\* it, and main prints only the outcome it has just received.
C35_DeliveredExactlyOnce ==
    /\ []((concurrent /\ mpc # "crashed") =>
             /\ \A r \in Outcomes :
                   Occurrences(emitted, r) + (IF mpc = "print" /\ res = r THEN 1 ELSE 0)
                       = ReturnedOccurrences(sent, r)
             /\ mpc = "complete" =>
                   \A r \in Outcomes :
                       Occurrences(emitted, r)
                           = ReturnedOccurrences([i \in Instances |-> Len(results[i])], r))
    /\ [][(concurrent' /\ mpc' # "crashed") =>
             /\ \A i \in Instances : sent'[i] # sent[i] =>
                   /\ sent'[i] = sent[i] + 1
                   /\ Returned(i)
                   /\ mpc = "range" /\ mpc' = "print"
                   /\ res' = results[i][sent'[i]]
                   /\ \A j \in Instances \ {i} : sent'[j] = sent[j]
             /\ emitted' # emitted =>
                   (mpc = "print" /\ mpc' = "range" /\ emitted' = Append(emitted, res))]_vars

\* A complete concurrent run in which two workers returned the same outcome
\* and it was printed twice.
C35_Witness ==
    /\ concurrent
    /\ mpc = "complete"
    /\ \E i, j \in Instances :
          /\ i < j
          /\ results[i] # <<>>
          /\ results[i] = results[j]
          /\ Occurrences(emitted, results[i][1]) = 2


\* ---------------------------------------------------------------------
\* Closing the channel.

\* Every worker has sent its last outcome and called wg.Done.
AllHandedOver ==
    /\ wg = 0
    /\ \A i \in Instances : xpc[i] = "exited" /\ sent[i] = Len(results[i])

\* C36: resultsChan is closed exactly once and only after every worker has
\* sent its last outcome and called wg.Done.  Whenever the channel is closed
\* all workers have handed over everything, so no worker sends on the closed
\* channel (the run-time panic of such a send never happens) and main leaves
\* the range loop with nothing unsent.  The close is a step of the closing
\* goroutine, which then is done for good, and the channel never reopens.
C36_ClosedOnceAfterAllSent ==
    /\ [](concurrent =>
             /\ (chClosed \/ closer = "close") => AllHandedOver
             /\ chClosed <=> closer = "done"
             /\ mpc = "crashed" => ~chClosed
             /\ mpc = "complete" => (chClosed /\ AllHandedOver))
    /\ [][/\ chClosed => chClosed'
          /\ closer = "done" => closer' = "done"
          /\ (chClosed' /\ ~chClosed) =>
                (concurrent /\ closer = "close" /\ closer' = "done" /\ AllHandedOver)]_vars

\* The channel is closed after several workers handed over their outcomes
\* and main has not yet seen the close.
C36_Witness ==
    /\ concurrent
    /\ chClosed
    /\ mpc = "range"
    /\ Len(instanceList) >= 2
    /\ \A i \in Instances : Len(results[i]) >= 1 /\ sent[i] = Len(results[i])


\* ---------------------------------------------------------------------
\* Termination of the concurrent mode.

\* The run is complete: every worker finished, the channel is closed, main
\* left the range loop and printed everything.
Completed ==
    /\ mpc = "complete"
    /\ chClosed
    /\ closer = "done"
    /\ \A i \in Instances : xpc[i] = "exited" /\ sent[i] = Len(results[i])
    /\ Len(emitted) =
           Cardinality(UNION {{<<i, k>> : k \in 1..Len(results[i])} : i \in Instances})

\* C37: the concurrent mode neither deadlocks nor runs forever.  Under fair
\* scheduling, a concurrent run in which no database call panics (each one
\* returns, with or without an error) reaches completion: every worker
\* finishes, the closing goroutine closes the channel, main leaves the range
\* loop and "All executions complete." is reached, whatever the number of
\* instances and of statements, none included.
C37_ConcurrentTerminates ==
    (concurrent /\ [](mpc # "crashed")) => <>Completed

\* A concurrent run of several workers on a text without any statement is
\* complete.
C37_Witness ==
    /\ concurrent
    /\ Completed
    /\ Len(instanceList) >= 2
    /\ StatementList = <<>>
    /\ \A i \in Instances : link[i] = "ready"


\* ---------------------------------------------------------------------
\* Hung workers.

Hung(i) == xpc[i] = "hung"

\* Worker i has run every statement, returned, sent all its outcomes, which
\* main has printed, and called wg.Done.
FinishedAndHandedOver(i) ==
    /\ xpc[i] = "exited"
    /\ link[i] = "ready" => queried[i] = Len(StatementList)
    /\ sent[i] = Len(results[i])
    /\ EmittedOf(i) = results[i]

\* C38: a worker whose database call never returns blocks only itself.  It
\* stays in the call for ever; as long as a worker hangs in a concurrent run
\* the channel is not closed and main does not reach completion; and under
\* fair scheduling, unless a panic ends the process, every worker that does
\* not hang runs all its statements and hands over all its outcomes, which
\* main prints.
C38_HungWorkerBlocksOnlyItself ==
    /\ []((concurrent /\ \E i \in Instances : Hung(i)) =>
             (mpc # "complete" /\ ~chClosed /\ closer # "done"))
    /\ [][\A i \in Instances : Hung(i) => (Hung(i)' \/ mpc' = "crashed")]_vars
    /\ (concurrent /\ [](mpc # "crashed")) =>
           <>[](\A j \in Instances : Hung(j) \/ FinishedAndHandedOver(j))

\* One worker hangs, another has run its statements and handed over its
\* outcomes, and main waits in the range loop.
C38_Witness ==
    /\ concurrent
    /\ mpc = "range"
    /\ \E i, j \in Instances :
          /\ Hung(i)
          /\ ~Hung(j)
          /\ FinishedAndHandedOver(j)
          /\ Len(results[j]) = 2


\* ---------------------------------------------------------------------
\* The two modes.

\* The outcomes of entry i as its database behaviour determines them: what
\* sql.Open and db.Ping did and, call by call, what db.Query, Columns, the
\* fetched rows and rows.Err did.  The mode does not occur in it.
OutcomesOf(i) ==
    LET log == dblog[i]
        dsn == instanceList[i]
        calls == QueryCalls(i)
    IN  IF log = <<>> THEN <<>>
        ELSE IF log[1].failed THEN <<ConnectionResult(dsn, "open")>>
        ELSE IF Len(log) >= 2 /\ log[2].failed THEN <<ConnectionResult(dsn, "ping")>>
        ELSE [k \in 1..Len(calls) |->
                 IF calls[k].failed
                 THEN QueryErrorResult(dsn, StatementList[calls[k].unit])
                 ELSE RowsResult(dsn, StatementList[calls[k].unit],
                                 calls[k].colErr, calls[k].events, calls[k].iterErr)]

\* C39: what a complete run prints is determined, endpoint by endpoint, by
\* the instance list, the text and the behaviour of the endpoint's database,
\* in the same way in both modes.  In a complete run of either mode the
\* printed outcomes of each endpoint are, in order, the outcomes its database
\* behaviour determines, every statement of a connected endpoint has been
\* executed once, and nothing else is printed; so a concurrent and a
\* sequential run with the same behaviour print the same outcomes and differ
\* only in how those of different endpoints are placed among each other.
C39_ModesEmitTheSame ==
    mpc = "complete" =>
        /\ \A i \in Instances :
              /\ EmittedOf(i) = OutcomesOf(i)
              /\ dblog[i] # <<>>
              /\ (~dblog[i][1].failed /\ ~dblog[i][2].failed) =>
                    /\ Len(QueryCalls(i)) = Len(StatementList)
                    /\ \A k \in 1..Len(StatementList) : QueryCalls(i)[k].unit = k
        /\ \A p \in 1..Len(emitted) :
              \E i \in Instances : emitted[p].Instance = instanceList[i]
        /\ ~concurrent => InputOrder

\* A complete concurrent run that printed the outcomes of a later endpoint
\* before those of an earlier one, an error outcome among them.
C39_Witness ==
    /\ concurrent
    /\ mpc = "complete"
    /\ ~InputOrder
    /\ \E p \in 1..Len(emitted) : emitted[p].Err # "nil"
    /\ \A i \in Instances : EmittedOf(i) = OutcomesOf(i) /\ EmittedOf(i) # <<>>


\* ---------------------------------------------------------------------
\* Conservation of the text.

\* The longest text, in bytes, of the runs under SpecConserve.
MaxConserveLen == 4

\* The bytes of the texts under SpecConserve: ASCII characters, written as
\* themselves, and the two bytes C3 A9 that encode the letter e-acute.
LeadByte == "<C3>"

ContinuationByte == "<A9>"

ConserveBytes == {";", "'", "\\", "-", "/", "*", LeadByte, ContinuationByte}

\* The rune of the two-byte sequence, and utf8.RuneError.
Accented == "e-acute"

RuneError == "U+FFFD"

\* []rune(sqls): the string is decoded as UTF-8; a byte that does not start
\* a valid encoding becomes RuneError and decoding goes on after it.
RECURSIVE Runes(_)
Runes(bytes) ==
    IF bytes = <<>> THEN <<>>
    ELSE IF Len(bytes) >= 2 /\ bytes[1] = LeadByte /\ bytes[2] = ContinuationByte
    THEN <<Accented>> \o Runes(SubSeq(bytes, 3, Len(bytes)))
    ELSE IF bytes[1] \in {LeadByte, ContinuationByte}
    THEN <<RuneError>> \o Runes(Tail(bytes))
    ELSE <<bytes[1]>> \o Runes(Tail(bytes))

\* strings.Builder.WriteRune: the UTF-8 encoding of the rune; RuneError is
\* written as EF BF BD.
WriteRune(r) ==
    IF r = Accented THEN <<LeadByte, ContinuationByte>>
    ELSE IF r = RuneError THEN <<"<EF>", "<BF>", "<BD>">>
    ELSE <<r>>

\* The bytes a builder holds after the runes were written to it.
RECURSIVE BuilderString(_)
BuilderString(runes) ==
    IF runes = <<>> THEN <<>>
    ELSE WriteRune(Head(runes)) \o BuilderString(Tail(runes))

\* utf8.ValidString.
RECURSIVE ValidString(_)
ValidString(bytes) ==
    IF bytes = <<>> THEN TRUE
    ELSE IF Len(bytes) >= 2 /\ bytes[1] = LeadByte /\ bytes[2] = ContinuationByte
    THEN ValidString(SubSeq(bytes, 3, Len(bytes)))
    ELSE bytes[1] \notin {LeadByte, ContinuationByte} /\ ValidString(Tail(bytes))

\* The segmenter on the runes of every byte string of at most
\* MaxConserveLen bytes; arg keeps the string.
InitConserve ==
    /\ arg \in BoundedTexts(ConserveBytes, MaxConserveLen)
    /\ input = Runes(arg)
    /\ sc = ScanInit
    /\ spc = "scan"
    /\ fpc = "idle"
    /\ ret = <<>>
    /\ RunIdle

SpecConserve == InitConserve /\ [][NextSplit]_vars

\* The raw buffers joined by a semicolon at each split point.
RECURSIVE JoinBuffers(_)
JoinBuffers(buffers) ==
    IF buffers = <<>> THEN <<>>
    ELSE IF Len(buffers) = 1 THEN BuilderString(buffers[1])
    ELSE BuilderString(buffers[1]) \o <<";">> \o JoinBuffers(Tail(buffers))

\* What the segmenter accumulated: the buffer at each split point and the
\* buffer left at the end.
Accumulated == JoinBuffers(Append(sc.buffers, sc.currentStatement))

\* C40: the segmenter conserves the text.  For every input, the raw buffers
\* joined with a semicolon at each split point are the input.
C40_CharactersConserved == spc = "done" => Accumulated = arg

\* On every input that is valid UTF-8 the text is conserved: the raw buffers
\* joined with a semicolon at each split point are the input, there is one
\* buffer for each split point, and each split point is a semicolon.
ValidTextConserved ==
    (spc = "done" /\ ValidString(arg)) =>
        /\ Accumulated = arg
        /\ Len(sc.buffers) = Cardinality(sc.splitAt)
        /\ \A p \in sc.splitAt : input[p] = ";"

\* A text with a letter of two bytes, an escape pair or a comment opener,
\* and a split is scanned and reproduced.
ValidTextScanned ==
    /\ spc = "done"
    /\ ValidString(arg)
    /\ Len(arg) = MaxConserveLen
    /\ sc.splitAt # {}
    /\ \E p \in 1..Len(arg) : arg[p] = LeadByte
    /\ Accumulated = arg

=============================================================================
